---- MODULE Spec2Model ----
(***************************************************************************)
(* Model of the declarative product scraper: the crawl controller          *)
(* (UniversalScraper.scrapeProducts), listing navigation with retries      *)
(* (ProductDiscovery.navigateToPage) and rule-based field extraction and   *)
(* validation (ProductExtractor.extractProduct / isValidProduct).          *)
(*                                                                         *)
(* A JavaScript string is a sequence of one-character strings, so that     *)
(* length, trim, toLowerCase, includes and split are computed.             *)
(***************************************************************************)
EXTENDS Integers, Sequences, FiniteSets, TLC

\* ------------------------------------------------------------------------
\* String primitives (String.prototype.*)
\* ------------------------------------------------------------------------

UpperChars == <<"A","B","C","D","E","F","G","H","I","J","K","L","M",
                "N","O","P","Q","R","S","T","U","V","W","X","Y","Z">>

LowerChars == <<"a","b","c","d","e","f","g","h","i","j","k","l","m",
                "n","o","p","q","r","s","t","u","v","w","x","y","z">>

UpperSet == {UpperChars[k] : k \in 1..26}

\* one character of String.prototype.toLowerCase
LowerOf(c) ==
    IF c \in UpperSet
    THEN LowerChars[CHOOSE k \in 1..26 : UpperChars[k] = c]
    ELSE c

toLowerCase(s) == [k \in 1..Len(s) |-> LowerOf(s[k])]

\* String.prototype.includes: the empty string is included in every string
includes(s, sub) ==
    \E k \in 0..(Len(s) - Len(sub)) : SubSeq(s, k + 1, k + Len(sub)) = sub

endsWith(s, sub) ==
    /\ Len(s) >= Len(sub)
    /\ SubSeq(s, Len(s) - Len(sub) + 1, Len(s)) = sub

IsSpace(c) == c \in {" ", "\n", "\t"}

\* the n-th smallest member of a set of positions
Nth(positions, n) ==
    CHOOSE k \in positions : Cardinality({m \in positions : m < k}) = n - 1

\* String.prototype.trim
trim(s) ==
    IF \A k \in 1..Len(s) : IsSpace(s[k]) THEN <<>>
    ELSE LET lo == CHOOSE k \in 1..Len(s) :
                       ~IsSpace(s[k]) /\ \A m \in 1..(k - 1) : IsSpace(s[m])
             hi == CHOOSE k \in 1..Len(s) :
                       ~IsSpace(s[k]) /\ \A m \in (k + 1)..Len(s) : IsSpace(s[m])
         IN  SubSeq(s, lo, hi)

\* [...new Set(results)]: first occurrences, in order
RECURSIVE UniqueFrom(_, _)
UniqueFrom(seq, acc) ==
    IF seq = <<>> THEN acc
    ELSE IF \E k \in 1..Len(acc) : acc[k] = Head(seq)
         THEN UniqueFrom(Tail(seq), acc)
         ELSE UniqueFrom(Tail(seq), Append(acc, Head(seq)))

SetSpread(seq) == UniqueFrom(seq, <<>>)

RECURSIVE Flat(_)
Flat(seqs) == IF seqs = <<>> THEN <<>> ELSE Head(seqs) \o Flat(Tail(seqs))

NoDuplicates(seq) == \A a, b \in 1..Len(seq) : seq[a] = seq[b] => a = b

\* ------------------------------------------------------------------------
\* The rendered document: the body's children in document order.
\* An element is [tag, sels, text, items, src, href, title, alt]: sels is
\* the set of configured selectors the element matches, items its child
\* elements, src and href the resolved URLs of an <img> and of an <a>.
\* ------------------------------------------------------------------------

HeadingTags == {"h1", "h2", "h3", "h4", "h5", "h6"}

ListTags == {"ul", "ol"}

El(tag, sels, text) ==
    [tag |-> tag, sels |-> sels, text |-> text, items |-> <<>>,
     src |-> <<>>, href |-> <<>>, title |-> <<>>, alt |-> <<>>]

Li(sels, text) == El("li", sels, text)

ListEl(tag, sels, items) == [El(tag, sels, <<>>) EXCEPT !.items = items]

Img(sels, src) == [El("img", sels, <<>>) EXCEPT !.src = src]

\* an <a> of a listing page: its own text, its child elements, its attributes
Anchor(sels, href, text, items, titleAttr) ==
    [El("a", sels, text) EXCEPT !.href = href, !.items = items, !.title = titleAttr]

\* Node.textContent: the element's own text, then the text of its children
textContent(el) ==
    el.text \o Flat([k \in 1..Len(el.items) |-> el.items[k].text])

\* every element of the document in document order
AllElements(doc) ==
    Flat([k \in 1..Len(doc) |-> <<doc[k]>> \o doc[k].items])

matches(el, selector) == selector \in el.sels

querySelectorAll(doc, selector) ==
    SelectSeq(AllElements(doc), LAMBDA el : matches(el, selector))

\* ------------------------------------------------------------------------
\* Multi-valued extraction helpers of extractProduct
\* ------------------------------------------------------------------------

\* the texts one selector contributes: trimmed, longer than 5 characters
SelectorTexts(doc, selector) ==
    LET els   == querySelectorAll(doc, selector)
        texts == [k \in 1..Len(els) |-> trim(textContent(els[k]))]
    IN  SelectSeq(texts, LAMBDA t : Len(t) > 5)

extractBySelectors(doc, selectors) ==
    SetSpread(Flat([k \in 1..Len(selectors) |-> SelectorTexts(doc, selectors[k])]))

\* h.textContent.toLowerCase().includes(keyword.toLowerCase()) for some keyword
HeadingMatches(el, keywords) ==
    /\ el.tag \in HeadingTags
    /\ \E k \in 1..Len(keywords) :
          includes(toLowerCase(textContent(el)), toLowerCase(keywords[k]))

\* what one sibling of a matched heading contributes
SiblingTexts(el) ==
    IF el.tag \in ListTags
    THEN LET items == SelectSeq(el.items, LAMBDA c : c.tag = "li")
         IN  SelectSeq([k \in 1..Len(items) |-> trim(textContent(items[k]))],
                       LAMBDA t : Len(t) > 5)
    ELSE IF el.tag \in {"li", "p"}
         THEN LET t == trim(textContent(el))
              IN  IF Len(t) > 10 THEN <<t>> ELSE <<>>
         ELSE <<>>

\* the walk over nextElementSibling from position k up to the next heading
RECURSIVE WalkSiblings(_, _)
WalkSiblings(doc, k) ==
    IF k > Len(doc) \/ doc[k].tag \in HeadingTags THEN <<>>
    ELSE SiblingTexts(doc[k]) \o WalkSiblings(doc, k + 1)

extractByHeading(doc, keywords) ==
    SetSpread(Flat([k \in 1..Len(doc) |->
        IF HeadingMatches(doc[k], keywords) THEN WalkSiblings(doc, k + 1)
        ELSE <<>>]))

\* ------------------------------------------------------------------------
\* Values of the fields of a ProductData object ([key: string]: any): a
\* string or an array of strings, told apart by a type tag.
\* ------------------------------------------------------------------------

Str(s) == [type |-> "string", value |-> s]

Arr(a) == [type |-> "array", value |-> a]

IsString(v) == v.type = "string"

\* the .length of a string or of an array
length(v) == Len(v.value)

\* product[key] = v
SetField(product, key, v) ==
    [f \in (DOMAIN product) \cup {key} |-> IF f = key THEN v ELSE product[f]]

Has(product, key) == key \in DOMAIN product

\* ------------------------------------------------------------------------
\* Single-valued extraction of extractProduct
\* ------------------------------------------------------------------------

\* document.querySelector(selector)?.textContent?.trim(), "" when no match
FirstText(doc, selector) ==
    LET els == querySelectorAll(doc, selector)
    IN  IF els = <<>> THEN <<>> ELSE trim(textContent(els[1]))

\* FirstNonEmptyText without the break: the last selector with text wins
LastNonEmptyText(doc, selectors, dflt) ==
    LET finding == {k \in 1..Len(selectors) : FirstText(doc, selectors[k]) # <<>>}
    IN  IF finding = {} THEN dflt
        ELSE FirstText(doc, selectors[CHOOSE k \in finding :
                                         \A m \in finding : m <= k])

\* first selector whose first match has non-empty trimmed text, else dflt
RECURSIVE FirstNonEmptyText(_, _, _)
FirstNonEmptyText(doc, selectors, dflt) ==
    IF selectors = <<>> THEN dflt
    ELSE IF FirstText(doc, Head(selectors)) # <<>>
         THEN FirstText(doc, Head(selectors))
         ELSE FirstNonEmptyText(doc, Tail(selectors), dflt)

ExtractTitle(doc, config, title) ==
    FirstNonEmptyText(doc, config.extractionRules.title, title)

\* DescriptionTexts that keeps every non-empty text
DescriptionTextsOfAnyLength(doc, selector) ==
    LET els   == querySelectorAll(doc, selector)
        texts == [k \in 1..Len(els) |-> trim(textContent(els[k]))]
    IN  SelectSeq(texts, LAMBDA t : Len(t) > 0)

\* the texts one description selector contributes: longer than 20 characters
DescriptionTexts(doc, selector) ==
    LET els   == querySelectorAll(doc, selector)
        texts == [k \in 1..Len(els) |-> trim(textContent(els[k]))]
    IN  SelectSeq(texts, LAMBDA t : Len(t) > 20)

IsTerminator(c) == c \in {".", "!", "?"}

\* firstDesc.split(/[.!?]+/): a separator is a maximal run of terminators;
\* the pieces are what lies before, between and after the separators, the
\* empty piece before a leading and after a trailing separator included
split(s) ==
    LET terms     == {k \in 1..Len(s) : IsTerminator(s[k])}
        runStarts == {k \in terms : k = 1 \/ (k - 1) \notin terms}
        runEnds   == {k \in terms : k = Len(s) \/ (k + 1) \notin terms}
        n         == Cardinality(runEnds)
    IN  [p \in 1..(n + 1) |->
            SubSeq(s,
                   IF p = 1 THEN 1 ELSE Nth(runEnds, p - 1) + 1,
                   IF p = n + 1 THEN Len(s) ELSE Nth(runStarts, p) - 1)]

\* Array.prototype.join
RECURSIVE join(_, _)
join(parts, sep) ==
    IF parts = <<>> THEN <<>>
    ELSE IF Len(parts) = 1 THEN parts[1]
         ELSE parts[1] \o sep \o join(Tail(parts), sep)

\* slice3 that keeps every part
sliceEvery(parts) == parts

slice3(parts) == SubSeq(parts, 1, IF Len(parts) < 3 THEN Len(parts) ELSE 3)

NormalizeDescription(firstDesc) ==
    LET sentences == split(firstDesc)
        joined    == trim(join(slice3(sentences), <<".", " ">>))
    IN  IF Len(sentences) >= 2
        THEN IF endsWith(joined, <<".">>) THEN joined ELSE joined \o <<".">>
        ELSE firstDesc

ExtractDescription(doc, config) ==
    LET rules        == config.extractionRules.description
        descriptions == Flat([k \in 1..Len(rules) |-> DescriptionTexts(doc, rules[k])])
    IN  IF Len(descriptions) > 0 THEN NormalizeDescription(descriptions[1]) ELSE <<>>

S_logo == <<"l","o","g","o">>

S_placeholder == <<"p","l","a","c","e","h","o","l","d","e","r">>

\* img?.src of the first match, when usable
UsableImage(doc, selector) ==
    LET els == querySelectorAll(doc, selector)
    IN  IF els = <<>> THEN <<>>
        ELSE IF /\ els[1].src # <<>>
                /\ ~includes(els[1].src, S_logo)
                /\ ~includes(els[1].src, S_placeholder)
             THEN els[1].src
             ELSE <<>>

RECURSIVE ExtractImage(_, _)
ExtractImage(doc, selectors) ==
    IF selectors = <<>> THEN <<>>
    ELSE IF UsableImage(doc, Head(selectors)) # <<>>
         THEN UsableImage(doc, Head(selectors))
         ELSE ExtractImage(doc, Tail(selectors))

\* ------------------------------------------------------------------------
\* extractProduct: the object built inside page.evaluate
\* ------------------------------------------------------------------------

MultiFields == <<"specifications", "features", "benefits",
                 "applications", "details", "resources">>

\* MultiValue with the heading-associated matches spread first
MultiValueHeadingFirst(doc, rule) ==
    extractByHeading(doc, rule.headingKeywords) \o extractBySelectors(doc, rule.selectors)

\* [...extractBySelectors(rule.selectors), ...extractByHeading(rule.headingKeywords)]
MultiValue(doc, rule) ==
    extractBySelectors(doc, rule.selectors) \o extractByHeading(doc, rule.headingKeywords)

\* the six named multi-valued fields, assigned in source order
RECURSIVE WithMultiFields(_, _, _, _)
WithMultiFields(product, doc, config, k) ==
    IF k > Len(MultiFields) THEN product
    ELSE LET values == MultiValue(doc, config.extractionRules[MultiFields[k]])
         IN  WithMultiFields(
                 IF Len(values) > 0
                 THEN SetField(product, MultiFields[k], Arr(values))
                 ELSE product,
                 doc, config, k + 1)

\* WithAdditionalFields assigning every declared field, matched or not
RECURSIVE WithAdditionalFieldsAlways(_, _, _)
WithAdditionalFieldsAlways(product, doc, entries) ==
    IF entries = <<>> THEN product
    ELSE WithAdditionalFieldsAlways(
             SetField(product, Head(entries).name,
                      Arr(extractBySelectors(doc, Head(entries).selectors))),
             doc, Tail(entries))

\* Object.entries(additionalFields).forEach: product[fieldName] = values
RECURSIVE WithAdditionalFields(_, _, _)
WithAdditionalFields(product, doc, entries) ==
    IF entries = <<>> THEN product
    ELSE LET values == extractBySelectors(doc, Head(entries).selectors)
         IN  WithAdditionalFields(
                 IF Len(values) > 0
                 THEN SetField(product, Head(entries).name, Arr(values))
                 ELSE product,
                 doc, Tail(entries))

\* url.split('/'): the pieces before, between and after the slashes
SplitSlash(s) ==
    LET slashes == {k \in 1..Len(s) : s[k] = "/"}
        n       == Cardinality(slashes)
    IN  [p \in 1..(n + 1) |->
            SubSeq(s,
                   IF p = 1 THEN 1 ELSE Nth(slashes, p - 1) + 1,
                   IF p = n + 1 THEN Len(s) ELSE Nth(slashes, p) - 1)]

Digits == {"0","1","2","3","4","5","6","7","8","9"}

\* the characters kept by replace(/[^a-zA-Z0-9-_]/g, '')
IsIdChar(c) ==
    \/ \E k \in 1..26 : c = UpperChars[k] \/ c = LowerChars[k]
    \/ c \in Digits
    \/ c \in {"-", "_"}

\* urlParts[urlParts.length - 1] || urlParts[urlParts.length - 2]
LastPart(url) ==
    LET urlParts == SplitSlash(url)
        n        == Len(urlParts)
    IN  IF urlParts[n] # <<>> THEN urlParts[n]
        ELSE IF n >= 2 THEN urlParts[n - 1] ELSE <<>>

WithProductId(product, url) ==
    IF LastPart(url) # <<>>
    THEN SetField(product, "productId",
                  Str(SelectSeq(LastPart(url), LAMBDA c : IsIdChar(c))))
    ELSE product

WithPrice(product, doc, config) ==
    LET price == FirstNonEmptyText(doc, config.extractionRules.price, <<>>)
    IN  IF price # <<>> THEN SetField(product, "price", Str(price)) ELSE product

\* the callback passed to page.evaluate
EvaluateProduct(doc, url, title, config) ==
    LET core == [title       |-> Str(ExtractTitle(doc, config, title)),
                 description |-> Str(ExtractDescription(doc, config)),
                 image       |-> Str(ExtractImage(doc, config.extractionRules.image)),
                 url         |-> Str(url)]
        withPrice  == WithPrice(core, doc, config)
        withMulti  == WithMultiFields(withPrice, doc, config, 1)
        withCustom == WithAdditionalFields(withMulti, doc,
                                           config.extractionRules.additionalFields)
    IN  WithProductId(withCustom, url)

\* ------------------------------------------------------------------------
\* isValidProduct: "true", "false", or "throw" when toLowerCase is applied
\* to a field that holds an array
\* ------------------------------------------------------------------------

\* one keyword loop of isValidProduct over the value of a field
KeywordCheck(v, keywords) ==
    IF keywords = <<>> THEN "pass"
    ELSE IF ~IsString(v) THEN "throw"
    ELSE IF \E k \in 1..Len(keywords) :
               includes(toLowerCase(v.value), toLowerCase(keywords[k]))
         THEN "hit"
         ELSE "pass"

\* isValidProduct without the minimum description length
isValidProductAnyLength(product, config) ==
    LET filters == config.filters
        byTitle == KeywordCheck(product.title, filters.invalidTitleKeywords)
        byDesc  == KeywordCheck(product.description, filters.invalidDescriptionKeywords)
    IN  IF byTitle = "throw" THEN "throw"
        ELSE IF byTitle = "hit" THEN "false"
        ELSE IF byDesc = "throw" THEN "throw"
        ELSE IF byDesc = "hit" THEN "false"
        ELSE "true"

\* isValidProduct without the loop over invalidTitleKeywords
isValidProductAnyTitle(product, config) ==
    LET filters == config.filters
        byDesc  == KeywordCheck(product.description, filters.invalidDescriptionKeywords)
    IN  IF length(product.description) < filters.minDescriptionLength THEN "false"
        ELSE IF byDesc = "throw" THEN "throw"
        ELSE IF byDesc = "hit" THEN "false"
        ELSE "true"

isValidProduct(product, config) ==
    LET filters == config.filters
        byTitle == KeywordCheck(product.title, filters.invalidTitleKeywords)
        byDesc  == KeywordCheck(product.description, filters.invalidDescriptionKeywords)
    IN  IF length(product.description) < filters.minDescriptionLength THEN "false"
        ELSE IF byTitle = "throw" THEN "throw"
        ELSE IF byTitle = "hit" THEN "false"
        ELSE IF byDesc = "throw" THEN "throw"
        ELSE IF byDesc = "hit" THEN "false"
        ELSE "true"

NULL == [type |-> "null"]

\* extractProduct: the record, or null when evaluation fails, validation
\* rejects or a fault is caught
extractProduct(doc, url, title, config, evaluateOk) ==
    IF ~evaluateOk THEN NULL
    ELSE LET productData == EvaluateProduct(doc, url, title, config)
         IN  IF isValidProduct(productData, config) = "true"
             THEN productData
             ELSE NULL

\* ------------------------------------------------------------------------
\* ProductDiscovery.extractProductLinks: the callback of page.evaluate
\* ------------------------------------------------------------------------

\* title.replace(/\s+/g, ' '): every maximal run of white space becomes
\* one space, placed where the run ends
CollapseSpaces(s) ==
    LET keep == {k \in 1..Len(s) :
                    ~IsSpace(s[k]) \/ k = Len(s) \/ ~IsSpace(s[k + 1])}
    IN  [n \in 1..Cardinality(keep) |->
            IF IsSpace(s[Nth(keep, n)]) THEN " " ELSE s[Nth(keep, n)]]

DigitChars == <<"1","2","3","4","5","6","7","8","9">>

\* `Product ${index + 1}` for the positions the model reaches
Placeholder(index) == <<"P","r","o","d","u","c","t"," ">> \o <<DigitChars[index + 1]>>

\* element.querySelector(titleSelector) || element
TitleElement(el, titleSelector) ==
    LET inner == SelectSeq(el.items, LAMBDA c : matches(c, titleSelector))
    IN  IF inner = <<>> THEN el ELSE inner[1]

\* the loop over titleSelectors: the first title element with text
RECURSIVE TitleBySelectors(_, _)
TitleBySelectors(el, titleSelectors) ==
    IF titleSelectors = <<>> THEN <<>>
    ELSE LET text == trim(textContent(TitleElement(el, Head(titleSelectors))))
         IN  IF text # <<>> THEN text
             ELSE TitleBySelectors(el, Tail(titleSelectors))

ResolveTitle(el, index, config) ==
    LET bySelector == TitleBySelectors(el, config.productSelectors.titleSelectors)
        fallback   == IF trim(textContent(el)) # <<>> THEN trim(textContent(el))
                      ELSE IF el.title # <<>> THEN el.title
                      ELSE IF el.alt # <<>> THEN el.alt
                      ELSE Placeholder(index)
    IN  trim(CollapseSpaces(IF bySelector # <<>> THEN bySelector ELSE fallback))

\* UrlAllowed without the check of skipUrls
UrlAllowedUnskipped(href, config) ==
    LET required == config.filters.requiredUrlPatterns
    IN  Len(required) > 0 =>
            \E k \in 1..Len(required) : includes(href, required[k])

UrlAllowed(href, config) ==
    LET required == config.filters.requiredUrlPatterns
        skip     == config.filters.skipUrls
    IN  /\ Len(required) > 0 =>
              \E k \in 1..Len(required) : includes(href, required[k])
        /\ ~\E k \in 1..Len(skip) : includes(href, skip[k])

\* what elements.forEach pushes for the element at a 0-based index
LinkOf(el, index, config) ==
    IF /\ UrlAllowed(el.href, config)
       /\ el.href # <<>>
       /\ ResolveTitle(el, index, config) # <<>>
    THEN <<[url |-> el.href, title |-> ResolveTitle(el, index, config)]>>
    ELSE <<>>

LinksBySelector(doc, linkSelector, config) ==
    LET elements == querySelectorAll(doc, linkSelector)
    IN  Flat([k \in 1..Len(elements) |-> LinkOf(elements[k], k - 1, config)])

\* LinksFrom that never leaves the loop over linkSelectors
LinksFromEverySelector(doc, linkSelectors, config) ==
    Flat([k \in 1..Len(linkSelectors) |->
             LinksBySelector(doc, linkSelectors[k], config)])

\* the loop over linkSelectors, left as soon as links is non-empty
RECURSIVE LinksFrom(_, _, _)
LinksFrom(doc, linkSelectors, config) ==
    IF linkSelectors = <<>> THEN <<>>
    ELSE IF Len(LinksBySelector(doc, Head(linkSelectors), config)) > 0
         THEN LinksBySelector(doc, Head(linkSelectors), config)
         ELSE LinksFrom(doc, Tail(linkSelectors), config)

\* UniqueByUrl with findLastIndex in place of findIndex
UniqueByUrlLast(links) ==
    LET keep == {k \in 1..Len(links) :
                    \A n \in (k + 1)..Len(links) : links[n].url # links[k].url}
    IN  [n \in 1..Cardinality(keep) |-> links[Nth(keep, n)]]

\* links.filter((item, index, arr) => arr.findIndex(o => o.url === item.url) === index)
UniqueByUrl(links) ==
    LET firstIndex(k) == CHOOSE m \in 1..Len(links) :
                             /\ links[m].url = links[k].url
                             /\ \A n \in 1..(m - 1) : links[n].url # links[k].url
        keep == {k \in 1..Len(links) : firstIndex(k) = k}
        pick(n) == CHOOSE k \in keep : Cardinality({m \in keep : m < k}) = n - 1
    IN  [n \in 1..Cardinality(keep) |-> links[pick(n)]]

extractProductLinks(doc, config) ==
    UniqueByUrl(LinksFrom(doc, config.productSelectors.linkSelectors, config))

\* ------------------------------------------------------------------------
\* Texts of the site the crawl runs against
\* ------------------------------------------------------------------------

\* "Fast" (4 characters)
S_Fast ==
    <<"F","a","s","t">>

\* "Light" (5 characters)
S_Light ==
    <<"L","i","g","h","t">>

\* "Durable" (7 characters)
S_Durable ==
    <<"D","u","r","a","b","l","e">>

\* "  Durable " (10 characters)
S_PaddedDurable ==
    <<" "," ","D","u","r","a","b","l","e"," ">>

\* "Waterproof" (10 characters)
S_Waterproof ==
    <<"W","a","t","e","r","p","r","o","o","f">>

\* "Rustproof steel" (15 characters)
S_RustproofSteel ==
    <<"R","u","s","t","p","r","o","o","f"," ","s","t","e","e","l">>

\* "Key Features" (12 characters)
S_KeyFeatures ==
    <<"K","e","y"," ","F","e","a","t","u","r","e","s">>

\* "Overview" (8 characters)
S_Overview ==
    <<"O","v","e","r","v","i","e","w">>

\* "features" (8 characters)
S_features ==
    <<"f","e","a","t","u","r","e","s">>

\* "specifications" (14 characters)
S_specifications ==
    <<"s","p","e","c","i","f","i","c","a","t","i","o","n","s">>

\* "Widget" (6 characters)
S_Widget ==
    <<"W","i","d","g","e","t">>

\* "Gadget" (6 characters)
S_Gadget ==
    <<"G","a","d","g","e","t">>

\* "Gizmo" (5 characters)
S_Gizmo ==
    <<"G","i","z","m","o">>

\* "404" (3 characters)
S_404 ==
    <<"4","0","4">>

\* "sold out" (8 characters)
S_SoldOut ==
    <<"s","o","l","d"," ","o","u","t">>

\* "A sturdy steel widget. Built to last! Works anywhere? Great value. Buy it" (73 characters)
S_DescWidget ==
    <<"A"," ","s","t","u","r","d","y"," ","s","t","e","e","l"," ","w","i",
      "d","g","e","t","."," ","B","u","i","l","t"," ","t","o"," ","l","a",
      "s","t","!"," ","W","o","r","k","s"," ","a","n","y","w","h","e","r",
      "e","?"," ","G","r","e","a","t"," ","v","a","l","u","e","."," ","B",
      "u","y"," ","i","t">>

\* "Compact gadget for daily use" (28 characters)
S_DescGadget ==
    <<"C","o","m","p","a","c","t"," ","g","a","d","g","e","t"," ","f","o",
      "r"," ","d","a","i","l","y"," ","u","s","e">>

\* "Handy gizmo made for every home and garden" (42 characters)
S_DescGizmo ==
    <<"H","a","n","d","y"," ","g","i","z","m","o"," ","m","a","d","e"," ",
      "f","o","r"," ","e","v","e","r","y"," ","h","o","m","e"," ","a","n",
      "d"," ","g","a","r","d","e","n">>

\* "Widget 404 Not Found" (20 characters)
S_Widget404 ==
    <<"W","i","d","g","e","t"," ","4","0","4"," ","N","o","t"," ","F","o",
      "u","n","d">>

\* "Now SOLD OUT everywhere. Back soon" (34 characters)
S_DescSoldOut ==
    <<"N","o","w"," ","S","O","L","D"," ","O","U","T"," ","e","v","e","r",
      "y","w","h","e","r","e","."," ","B","a","c","k"," ","s","o","o","n">>

\* "http://s.io/products/card" (25 characters)
S_UrlCard ==
    <<"h","t","t","p",":","/","/","s",".","i","o","/","p","r","o","d","u",
      "c","t","s","/","c","a","r","d">>

\* "http://s.io/contact" (19 characters)
S_UrlContact ==
    <<"h","t","t","p",":","/","/","s",".","i","o","/","c","o","n","t","a",
      "c","t">>

\* "New " (4 characters)
S_New ==
    <<"N","e","w"," ">>

\* "Sale" (4 characters)
S_Sale ==
    <<"S","a","l","e">>

\* "Sturdy... and light!! Lasts for years" (37 characters)
S_DescEllipsis ==
    <<"S","t","u","r","d","y",".",".","."," ","a","n","d"," ","l","i","g",
      "h","t","!","!"," ","L","a","s","t","s"," ","f","o","r"," ","y","e",
      "a","r","s">>

\* "Compact gadget for daily use. Neat." (35 characters)
S_DescTwo ==
    <<"C","o","m","p","a","c","t"," ","g","a","d","g","e","t"," ","f","o",
      "r"," ","d","a","i","l","y"," ","u","s","e","."," ","N","e","a","t",
      ".">>

\* "$19.99" (6 characters)
S_Price ==
    <<"$","1","9",".","9","9">>

\* "http://s.io/img/w.png" (21 characters)
S_ImgWidget ==
    <<"h","t","t","p",":","/","/","s",".","i","o","/","i","m","g","/","w",
      ".","p","n","g">>

\* "http://s.io/products/widget" (27 characters)
S_UrlWidget ==
    <<"h","t","t","p",":","/","/","s",".","i","o","/","p","r","o","d","u",
      "c","t","s","/","w","i","d","g","e","t">>

\* "http://s.io/products/gadget" (27 characters)
S_UrlGadget ==
    <<"h","t","t","p",":","/","/","s",".","i","o","/","p","r","o","d","u",
      "c","t","s","/","g","a","d","g","e","t">>

\* "http://s.io/products/gizmo-1/" (29 characters)
S_UrlGizmo ==
    <<"h","t","t","p",":","/","/","s",".","i","o","/","p","r","o","d","u",
      "c","t","s","/","g","i","z","m","o","-","1","/">>

\* "http://s.io/products/" (21 characters)
S_BaseUrl ==
    <<"h","t","t","p",":","/","/","s",".","i","o","/","p","r","o","d","u",
      "c","t","s","/">>

\* "?page=${pageNumber}" (19 characters)
S_Pagination ==
    <<"?","p","a","g","e","=","$","{","p","a","g","e","N","u","m","b","e",
      "r","}">>

\* "/products/" (10 characters)
S_ProductsPath ==
    <<"/","p","r","o","d","u","c","t","s","/">>

\* "/contact" (8 characters)
S_ContactPath ==
    <<"/","c","o","n","t","a","c","t">>

\* "No products" (11 characters)
S_NoProducts ==
    <<"N","o"," ","p","r","o","d","u","c","t","s">>


\* ------------------------------------------------------------------------
\* The site profile (ScraperConfig) and the crawl options
\* ------------------------------------------------------------------------

\* largest navigation.maxRetries a profile of the model declares
MaxRetries == 3

\* largest explicit options.maxPages; 0 stands for an absent option
MaxPagesOption == 2

\* filters.minDescriptionLength of the predefined profiles
MinLengths == {30, 50}

Rule(selectors, headingKeywords) ==
    [selectors |-> selectors, headingKeywords |-> headingKeywords]

Profile(maxRetries, minDescriptionLength) ==
    [siteName          |-> S_Widget,
     baseUrl           |-> S_BaseUrl,
     paginationPattern |-> S_Pagination,
     productSelectors  |->
         [containerSelectors |-> <<".product-grid">>,
          linkSelectors      |-> <<"a.product-link", ".card a">>,
          titleSelectors     |-> <<".product-title">>],
     extractionRules   |->
         [title          |-> <<".missing", ".title">>,
          description    |-> <<".product-description", ".content">>,
          image          |-> <<".product-image img">>,
          price          |-> <<".price">>,
          specifications |-> Rule(<<".specs li">>, <<S_specifications>>),
          features       |-> Rule(<<".features li">>, <<S_features>>),
          benefits       |-> Rule(<<".benefits li">>, <<>>),
          applications   |-> Rule(<<".applications li">>, <<>>),
          details        |-> Rule(<<".details li">>, <<S_specifications>>),
          resources      |-> Rule(<<".resources li">>, <<>>),
          additionalFields |-> <<>>],
     navigation        |->
         [waitTime |-> 2000, maxRetries |-> maxRetries, timeout |-> 30000],
     filters           |->
         [skipUrls                   |-> <<S_ContactPath>>,
          requiredUrlPatterns        |-> <<S_ProductsPath>>,
          minDescriptionLength       |-> minDescriptionLength,
          invalidTitleKeywords       |-> <<S_404>>,
          invalidDescriptionKeywords |-> <<S_SoldOut>>]]

Profiles == {Profile(r, m) : r \in 0..MaxRetries, m \in MinLengths}

Options == [maxPages : 0..MaxPagesOption, enableStealth : BOOLEAN]

\* navigation.maxRetries and filters.minDescriptionLength of the predefined
\* generic profiles
PredefinedRetries == 3

PredefinedMinLength == 30

\* The sessions of the model: every profile with every explicit maxPages in
\* both pacing modes, and the default maxPages in plain mode with the
\* predefined retry count and length.
Sessions ==
    {s \in Profiles \X Options :
        s[2].maxPages = 0 =>
            /\ s[1] = Profile(PredefinedRetries, PredefinedMinLength)
            /\ ~s[2].enableStealth}

\* ------------------------------------------------------------------------
\* The pages the renderer serves
\* ------------------------------------------------------------------------

BlankPage == <<>>

LinkWidget ==
    Anchor({"a.product-link"}, S_UrlWidget, <<>>,
           <<El("span", {".product-title"}, S_Widget)>>, <<>>)

LinkGadget == Anchor({"a.product-link"}, S_UrlGadget, S_Gadget, <<>>, <<>>)

LinkGizmo == Anchor({"a.product-link"}, S_UrlGizmo, <<>>, <<>>, S_Gizmo)

ListingEmpty == <<El("p", {}, S_NoProducts)>>

ListingWidgetGadget == <<LinkWidget, LinkGadget>>

ListingGizmoWidget == <<LinkGizmo, LinkWidget, LinkGizmo>>

ListingPages == {ListingEmpty, ListingWidgetGadget, ListingGizmoWidget}

DocWidget ==
    <<El("h1", {".title"}, S_Widget),
      El("div", {".product-description"}, S_DescWidget),
      Img({".product-image img"}, S_ImgWidget),
      El("span", {".price"}, S_Price),
      El("h2", {}, S_KeyFeatures),
      ListEl("ul", {}, <<Li({".features li"}, S_PaddedDurable),
                         Li({".features li"}, S_Waterproof),
                         Li({}, S_Light)>>),
      El("h2", {}, S_Overview),
      El("p", {}, S_RustproofSteel)>>

DocGadget ==
    <<El("h1", {".title"}, S_Gadget),
      El("div", {".product-description"}, S_DescGadget)>>

DocGizmo ==
    <<El("div", {".content"}, S_DescGizmo),
      ListEl("ul", {}, <<Li({".features li"}, S_Durable),
                         Li({".features li"}, S_Fast)>>)>>

\* the document the site serves at a product URL
ProductPage(url) ==
    IF url = S_UrlWidget THEN DocWidget
    ELSE IF url = S_UrlGadget THEN DocGadget
    ELSE DocGizmo

\* ------------------------------------------------------------------------
\* State of one crawl session
\* ------------------------------------------------------------------------

VARIABLES
    config,           \* this.config, the loaded site profile
    options,          \* this.options
    document,         \* the document the renderer's page currently shows
    pc,               \* the await at which scrapeProducts is suspended
    maxPages,         \* locals of scrapeProducts
    allProducts,
    currentPage,
    emptyPagesCount,
    pageLinks,
    i,
    productData,
    retries,          \* local of navigateToPage
    pageUrl,          \* local of getProductLinksFromPage
    returned,         \* <<allProducts>> once scrapeProducts has returned
    event,            \* history: what the last step did
    visited,          \* history: page numbers whose listing URL was requested
    emptyRun,         \* history: latest consecutive listing pages without candidates
    origin,           \* history: <<page, index, url>> of the candidate of each record
    attempts          \* history: page.goto calls of the latest navigation

vars == <<config, options, document, pc, maxPages, allProducts, currentPage,
          emptyPagesCount, pageLinks, i, productData, retries, returned,
          event, visited, emptyRun, origin, attempts, pageUrl>>

maxEmptyPages == 2

DefaultMaxPages == 5

\* this.options.maxPages || 5
MaxPagesOf(opts) == IF opts.maxPages = 0 THEN DefaultMaxPages ELSE opts.maxPages

\* Continue with the empty-page limit off by one
ContinueOffByOne(page, empty) == page <= maxPages /\ empty <= maxEmptyPages

\* the condition of the while loop and of the pause between pages
Continue(page, empty) == page <= maxPages /\ empty < maxEmptyPages

Init ==
    /\ \E s \in Sessions : config = s[1] /\ options = s[2]
    /\ document = BlankPage
    /\ pc = "start"
    /\ maxPages = 0
    /\ allProducts = <<>>
    /\ currentPage = 0
    /\ emptyPagesCount = 0
    /\ pageLinks = <<>>
    /\ i = 0
    /\ productData = NULL
    /\ retries = 0
    /\ returned = <<>>
    /\ event = "created"
    /\ visited = <<>>
    /\ emptyRun = 0
    /\ origin = <<>>
    /\ attempts = 0
    /\ pageUrl = <<>>

\* lines 88-96: the locals are set and the loop is entered
ScrapeStart ==
    /\ pc = "start"
    /\ maxPages' = MaxPagesOf(options)
    /\ allProducts' = <<>>
    /\ currentPage' = 1
    /\ emptyPagesCount' = 0
    /\ pc' = "browse"
    /\ event' = "start"
    /\ UNCHANGED <<config, options, document, pageLinks, i, productData, retries,
                   returned, visited, emptyRun, origin, attempts, pageUrl>>

\* the locals of one iteration of the page loop go out of scope
LeaveIteration ==
    /\ pageLinks' = <<>>
    /\ i' = 0
    /\ productData' = NULL
    /\ retries' = 0

\* lines 165-166: the loop is left and allProducts is returned
Return(products) ==
    /\ pc' = "done"
    /\ returned' = <<products>>

\* CatchPageError without currentPage++
CatchWithoutAdvance ==
    /\ emptyPagesCount' = emptyPagesCount + 1
    /\ currentPage' = currentPage
    /\ IF Continue(currentPage, emptyPagesCount + 1)
       THEN pc' = "browse" /\ returned' = returned
       ELSE Return(allProducts)
    /\ LeaveIteration

\* CatchPageError without emptyPagesCount++
CatchWithoutCount ==
    /\ emptyPagesCount' = emptyPagesCount
    /\ currentPage' = currentPage + 1
    /\ IF Continue(currentPage + 1, emptyPagesCount)
       THEN pc' = "browse" /\ returned' = returned
       ELSE Return(allProducts)
    /\ LeaveIteration

\* lines 158-162: the catch of the page loop, then the loop condition
CatchPageError ==
    /\ emptyPagesCount' = emptyPagesCount + 1
    /\ currentPage' = currentPage + 1
    /\ IF Continue(currentPage + 1, emptyPagesCount + 1)
       THEN pc' = "browse" /\ returned' = returned
       ELSE Return(allProducts)
    /\ LeaveIteration

\* AdvancePage without the pause between pages
AdvancePageUnpaused(empty, products) ==
    /\ currentPage' = currentPage + 1
    /\ IF Continue(currentPage + 1, empty)
       THEN pc' = "browse" /\ returned' = returned
       ELSE Return(products)
    /\ LeaveIteration

\* lines 149-156: the page number advances, then the pause or the return
AdvancePage(empty, products) ==
    /\ currentPage' = currentPage + 1
    /\ IF Continue(currentPage + 1, empty)
       THEN pc' = "pagePause" /\ returned' = returned
       ELSE Return(products)
    /\ LeaveIteration

\* ------------------------------------------------------------------------
\* ProductDiscovery.buildPageUrl
\* ------------------------------------------------------------------------

\* "${pageNumber}" (13 characters)
S_PageNumberToken ==
    <<"$","{","p","a","g","e","N","u","m","b","e","r","}">>

\* "?page=" (6 characters)
S_PageQuery ==
    <<"?","p","a","g","e","=">>

\* Number.prototype.toString of a page number
toString(n) ==
    LET digits == <<"0","1","2","3","4","5","6","7","8","9">>
        d      == CHOOSE w \in 1..6 : n < 10 ^ w /\ (w = 1 \/ n >= 10 ^ (w - 1))
    IN  [k \in 1..d |-> digits[((n \div (10 ^ (d - k))) % 10) + 1]]

\* pattern.replace(token, text): the first occurrence of token replaced
replace(pattern, token, text) ==
    IF ~includes(pattern, token) THEN pattern
    ELSE LET at == {k \in 1..(Len(pattern) - Len(token) + 1) :
                       SubSeq(pattern, k, k + Len(token) - 1) = token}
             k  == Nth(at, 1)
         IN  SubSeq(pattern, 1, k - 1) \o text
             \o SubSeq(pattern, k + Len(token), Len(pattern))

\* buildPageUrl that leaves the token in place
buildPageUrlUnsubstituted(pageNumber, profile) ==
    IF pageNumber = 1 THEN profile.baseUrl
    ELSE profile.baseUrl \o profile.paginationPattern

\* lines 17-30
buildPageUrl(pageNumber, profile) ==
    IF pageNumber = 1 THEN profile.baseUrl
    ELSE IF includes(profile.paginationPattern, S_PageNumberToken)
         THEN profile.baseUrl
              \o replace(profile.paginationPattern, S_PageNumberToken,
                         toString(pageNumber))
         ELSE profile.baseUrl \o S_PageQuery \o toString(pageNumber)

\* line 103 returns; getProductLinksFromPage builds the listing URL and
\* enters navigateToPage
Browse ==
    /\ pc = "browse"
    /\ retries' = 0
    /\ attempts' = IF 0 < config.navigation.maxRetries THEN 1 ELSE 0
    /\ pc' = IF 0 < config.navigation.maxRetries THEN "listingGoto" ELSE "waitForProducts"
    /\ visited' = IF 0 < config.navigation.maxRetries
                  THEN Append(visited, currentPage) ELSE visited
    /\ pageUrl' = buildPageUrl(currentPage, config)
    /\ event' = "browsed"
    /\ UNCHANGED <<config, options, document, maxPages, allProducts, currentPage,
                   emptyPagesCount, pageLinks, i, productData, returned, emptyRun,
                   origin>>

\* line 103 fails: the simulated pointer move is rejected by the renderer
BrowseFails ==
    /\ pc = "browse"
    /\ options.enableStealth
    /\ CatchPageError
    /\ emptyRun' = emptyRun + 1
    /\ attempts' = 0
    /\ event' = "browseFailed"
    /\ UNCHANGED <<config, options, document, maxPages, allProducts, visited, origin,
                   pageUrl>>

\* navigateToPage: page.goto resolves and navigateToPage returns
ListingLoaded ==
    /\ pc = "listingGoto"
    /\ \E listing \in ListingPages : document' = listing
    /\ retries' = 0
    /\ pc' = "waitForProducts"
    /\ event' = "listingLoaded"
    /\ UNCHANGED <<config, options, maxPages, allProducts, currentPage,
                   emptyPagesCount, pageLinks, i, productData, returned,
                   visited, emptyRun, origin, attempts, pageUrl>>

\* NavigateAfterFailure rethrowing the first failure
NavigateFailsAtOnce(n) ==
    /\ CatchPageError
    /\ emptyRun' = emptyRun + 1
    /\ event' = "listingExhausted"

\* navigateToPage: page.goto rejects; rethrown once retries reaches maxRetries
NavigateAfterFailure(n) ==
    IF n >= config.navigation.maxRetries
    THEN /\ CatchPageError
         /\ emptyRun' = emptyRun + 1
         /\ event' = "listingExhausted"
    ELSE /\ retries' = n
         /\ pc' = "retryDelay"
         /\ event' = "listingAttemptFailed"
         /\ UNCHANGED <<currentPage, emptyPagesCount, emptyRun, pageLinks, i,
                        productData, returned>>

ListingFails ==
    /\ pc = "listingGoto"
    /\ NavigateAfterFailure(retries + 1)
    /\ UNCHANGED <<config, options, document, maxPages, allProducts,
                   visited, origin, attempts, pageUrl>>

\* RetryDelay counting the attempts left in the profile
RetryDelayCountingDown ==
    /\ pc = "retryDelay"
    /\ config' = [config EXCEPT !.navigation.maxRetries = @ - 1]
    /\ retries' = 0
    /\ pc' = "listingGoto"
    /\ attempts' = attempts + 1
    /\ event' = "retry"
    /\ UNCHANGED <<options, document, maxPages, allProducts, currentPage,
                   emptyPagesCount, pageLinks, i, productData, returned,
                   visited, emptyRun, origin, pageUrl>>

\* navigateToPage: the 2 s delay is over, the next attempt starts
RetryDelay ==
    /\ pc = "retryDelay"
    /\ pc' = "listingGoto"
    /\ attempts' = attempts + 1
    /\ event' = "retry"
    /\ UNCHANGED <<config, options, document, maxPages, allProducts, currentPage,
                   emptyPagesCount, pageLinks, i, productData, retries, returned,
                   visited, emptyRun, origin, pageUrl>>

\* lines 106-113: waitForProducts, extractProductLinks, then the branch on
\* pageLinks.length
Discover ==
    /\ pc = "waitForProducts"
    /\ \E links \in {extractProductLinks(document, config)} :
           IF Len(links) = 0
           THEN /\ emptyPagesCount' = emptyPagesCount + 1
                /\ emptyRun' = emptyRun + 1
                /\ AdvancePage(emptyPagesCount + 1, allProducts)
                /\ attempts' = 0
           ELSE /\ emptyPagesCount' = 0
                /\ emptyRun' = 0
                /\ pageLinks' = links
                /\ i' = 0
                /\ pc' = "productGoto"
                /\ attempts' = 1
                /\ UNCHANGED <<currentPage, productData, retries, returned>>
    /\ event' = "discovered"
    /\ UNCHANGED <<config, options, document, maxPages, allProducts, visited, origin,
                   pageUrl>>

\* the page.evaluate of extractProductLinks rejects
DiscoverFails ==
    /\ pc = "waitForProducts"
    /\ CatchPageError
    /\ emptyRun' = emptyRun + 1
    /\ attempts' = 0
    /\ event' = "discoverFailed"
    /\ UNCHANGED <<config, options, document, maxPages, allProducts, visited, origin,
                   pageUrl>>

\* lines 122-125: page.goto(link.url) resolves
ProductLoaded ==
    /\ pc = "productGoto"
    /\ document' = ProductPage(pageLinks[i + 1].url)
    /\ pc' = "reading"
    /\ event' = "productLoaded"
    /\ UNCHANGED <<config, options, maxPages, allProducts, currentPage,
                   emptyPagesCount, pageLinks, i, productData, retries, returned,
                   visited, emptyRun, origin, attempts, pageUrl>>

\* lines 122-125: page.goto(link.url) rejects, which leaves the for loop
ProductGotoFailure ==
    /\ CatchPageError
    /\ event' = "productNavFailed"

ProductFails ==
    /\ pc = "productGoto"
    /\ ProductGotoFailure
    /\ UNCHANGED <<config, options, document, maxPages, allProducts,
                   visited, emptyRun, origin, attempts, pageUrl>>

\* line 128 fails: the simulated pointer move is rejected by the renderer
ReadingFails ==
    /\ pc = "reading"
    /\ options.enableStealth
    /\ CatchPageError
    /\ attempts' = 0
    /\ event' = "readingFailed"
    /\ UNCHANGED <<config, options, document, maxPages, allProducts,
                   visited, emptyRun, origin, pageUrl>>

\* Accumulate with unshift in place of push
AccumulateFront(products, data) ==
    IF data # NULL THEN <<data>> \o products ELSE products

\* Accumulate that keeps only the latest record
AccumulateLatest(products, data) ==
    IF data # NULL THEN <<data>> ELSE products

\* lines 133-138: allProducts.push(productData) when a record came back
Accumulate(products, data) ==
    IF data # NULL THEN Append(products, data) ELSE products

\* The outcomes of page.evaluate in extractProduct: the callback reads
\* config.extractionRules.title first (line 83), a TypeError when the profile
\* has no extractionRules, and then the evaluation is rejected every time.
EvaluateOutcomes(profile) ==
    IF "extractionRules" \in DOMAIN profile THEN BOOLEAN ELSE {FALSE}

\* lines 128-156: extractProduct, the push, then the delay before the next
\* candidate or the end of the page
Extract ==
    /\ pc = "reading"
    /\ \E evaluateOk \in EvaluateOutcomes(config) :
          /\ event' = IF evaluateOk THEN "extracted" ELSE "evaluateFailed"
          /\ \E data \in {extractProduct(document, pageLinks[i + 1].url,
                                      pageLinks[i + 1].title, config, evaluateOk)} :
              /\ allProducts' = Accumulate(allProducts, data)
              /\ IF i < Len(pageLinks) - 1
                 THEN /\ pc' = "productDelay"
                      /\ productData' = data
                      /\ UNCHANGED <<currentPage, pageLinks, i, retries, returned>>
                 ELSE AdvancePage(emptyPagesCount, Accumulate(allProducts, data))
              /\ origin' = IF data # NULL
                           THEN Append(origin, <<currentPage, i, pageLinks[i + 1].url>>)
                           ELSE origin
    /\ attempts' = 0
    /\ UNCHANGED <<config, options, document, maxPages, emptyPagesCount,
                   visited, emptyRun, pageUrl>>

\* line 142 returns; i++ and the next candidate's page.goto starts
ProductDelay ==
    /\ pc = "productDelay"
    /\ i' = i + 1
    /\ productData' = NULL
    /\ pc' = "productGoto"
    /\ attempts' = 1
    /\ event' = "productDelay"
    /\ UNCHANGED <<config, options, document, maxPages, allProducts, currentPage,
                   emptyPagesCount, pageLinks, retries, returned, visited, emptyRun,
                   origin, pageUrl>>

\* line 155 returns; the loop condition holds as it did before the pause
PagePause ==
    /\ pc = "pagePause"
    /\ pc' = "browse"
    /\ event' = "pagePause"
    /\ UNCHANGED <<config, options, document, maxPages, allProducts, currentPage,
                   emptyPagesCount, pageLinks, i, productData, retries, returned,
                   visited, emptyRun, origin, attempts, pageUrl>>

Next ==
    \/ ScrapeStart
    \/ Browse
    \/ BrowseFails
    \/ ListingLoaded
    \/ ListingFails
    \/ RetryDelay
    \/ DiscoverFails
    \/ Discover
    \/ ProductLoaded
    \/ ProductFails
    \/ ReadingFails
    \/ Extract
    \/ ProductDelay
    \/ PagePause

Spec == Init /\ [][Next]_vars

\* ------------------------------------------------------------------------
\* Extraction over generated product pages: the crawl is suspended after the
\* page.goto of the first of two candidates, and the renderer shows a product
\* page whose body is any sequence of the elements below.
\* ------------------------------------------------------------------------

\* largest number of body elements of a generated product page
MaxDocLen == 4

HeadingFeatures == El("h2", {}, S_KeyFeatures)

HeadingOverview == El("h2", {}, S_Overview)

ListFastLight == ListEl("ul", {}, <<Li({}, S_Fast), Li({}, S_Light)>>)

ListDirectDurable == ListEl("ul", {}, <<Li({".features li"}, S_Durable)>>)

ListPaddedWaterproof ==
    ListEl("ol", {}, <<Li({".features li"}, S_PaddedDurable),
                       Li({".features li"}, S_Fast),
                       Li({}, S_Waterproof)>>)

ParaSteel == El("p", {}, S_RustproofSteel)

ParaWaterproof == El("p", {}, S_Waterproof)

BodyElements == {HeadingFeatures, HeadingOverview, ListFastLight,
                 ListDirectDurable, ListPaddedWaterproof, ParaSteel,
                 ParaWaterproof}

\* title and description, which make the record acceptable
ProductHead ==
    <<El("h1", {".title"}, S_Widget),
      El("div", {".product-description"}, S_DescGizmo)>>

\* the two candidates discovered on the listing page
CandidatesWidgetGadget ==
    extractProductLinks(ListingWidgetGadget,
                        Profile(PredefinedRetries, PredefinedMinLength))

\* a heading with "Features", a list with "Fast" and "Light", an unrelated
\* heading, and a direct-selector match "Durable"
ExampleDocument ==
    ProductHead \o <<HeadingFeatures, ListFastLight, HeadingOverview,
                     ListDirectDurable>>

InitExtract ==
    /\ config = Profile(PredefinedRetries, PredefinedMinLength)
    /\ options = [maxPages |-> 1, enableStealth |-> FALSE]
    /\ pc = "reading"
    /\ maxPages = 1
    /\ allProducts = <<>>
    /\ currentPage = 1
    /\ emptyPagesCount = 0
    /\ pageLinks = CandidatesWidgetGadget
    /\ i = 0
    /\ productData = NULL
    /\ retries = 0
    /\ returned = <<>>
    /\ event = "productLoaded"
    /\ visited = <<1>>
    /\ emptyRun = 0
    /\ origin = <<>>
    /\ attempts = 1
    /\ pageUrl = S_BaseUrl
    /\ \E n \in 1..MaxDocLen :
          \E body \in [1..n -> BodyElements] : document = ProductHead \o body

NextExtract == Extract

SpecExtract == InitExtract /\ [][NextExtract]_vars

\* ------------------------------------------------------------------------
\* Extraction and validation over generated product pages: the crawl is
\* suspended after the page.goto of the first of two candidates, and the
\* renderer shows a page made of the title and description elements below.
\* ------------------------------------------------------------------------

\* largest number of elements of a generated title-and-description page
MaxHeadLen == 3

TitleWidget == El("h1", {".title"}, S_Widget)

Title404 == El("h1", {".title"}, S_Widget404)

MissingGadget == El("span", {".missing"}, S_Gadget)

DescriptionWidget == El("div", {".product-description"}, S_DescWidget)

DescriptionShort == El("div", {".product-description"}, S_Waterproof)

DescriptionGadget == El("div", {".product-description"}, S_DescGadget)

ContentGizmo == El("div", {".content"}, S_DescGizmo)

ContentSoldOut == El("div", {".content"}, S_DescSoldOut)

DescriptionEllipsis == El("div", {".product-description"}, S_DescEllipsis)

ContentTwo == El("div", {".content"}, S_DescTwo)

HeadElements == {TitleWidget, Title404, MissingGadget, DescriptionWidget,
                 DescriptionShort, DescriptionGadget, ContentGizmo,
                 ContentSoldOut, DescriptionEllipsis, ContentTwo}

\* the candidates discovered on the listing page: Gizmo, then Widget
CandidatesGizmoWidget ==
    extractProductLinks(ListingGizmoWidget,
                        Profile(PredefinedRetries, PredefinedMinLength))

InitRecord ==
    /\ options = [maxPages |-> 1, enableStealth |-> FALSE]
    /\ pc = "reading"
    /\ maxPages = 1
    /\ allProducts = <<>>
    /\ currentPage = 1
    /\ emptyPagesCount = 0
    /\ pageLinks = CandidatesGizmoWidget
    /\ i = 0
    /\ productData = NULL
    /\ retries = 0
    /\ returned = <<>>
    /\ event = "productLoaded"
    /\ visited = <<1>>
    /\ emptyRun = 0
    /\ origin = <<>>
    /\ attempts = 1
    /\ pageUrl = S_BaseUrl
    /\ \E m \in MinLengths : config = Profile(PredefinedRetries, m)
    /\ \E n \in 1..MaxHeadLen :
          \E head \in [1..n -> HeadElements] : document = head

NextRecord == Extract

SpecRecord == InitRecord /\ [][NextRecord]_vars

\* ------------------------------------------------------------------------
\* Link discovery over generated listing pages: the crawl is suspended after
\* the page.goto of listing page 1, and the renderer shows a page made of
\* the anchors below.
\* ------------------------------------------------------------------------

\* largest number of anchors of a generated listing page
MaxListingLen == 3

\* a link of the second link selector
CardLink == Anchor({".card a"}, S_UrlCard, S_Sale, <<>>, <<>>)

\* a link that the URL filters reject
LinkContact == Anchor({"a.product-link"}, S_UrlContact, S_Gadget, <<>>, <<>>)

\* a link outside the required URL pattern
LinkImage == Anchor({"a.product-link"}, S_ImgWidget, S_Gizmo, <<>>, <<>>)

\* a link with a badge before its title element
LinkBadgeWidget ==
    Anchor({"a.product-link"}, S_UrlWidget, <<>>,
           <<El("span", {".badge"}, S_New),
             El("span", {".product-title"}, S_Widget)>>, <<>>)

\* a link with neither text nor attributes
LinkBare == Anchor({"a.product-link"}, S_UrlGizmo, <<>>, <<>>, <<>>)

\* a link with an alt attribute only
LinkAlt == [Anchor({"a.product-link"}, S_UrlGadget, <<>>, <<>>, <<>>)
               EXCEPT !.alt = S_Sale]

ListingAnchors == {LinkWidget, LinkGadget, LinkGizmo, CardLink, LinkContact,
                   LinkImage, LinkBadgeWidget, LinkBare, LinkAlt}

\* the profile with other title selectors and required URL patterns
DiscoveryProfile(titleSelectors, requiredUrlPatterns) ==
    [Profile(PredefinedRetries, PredefinedMinLength) EXCEPT
        !.productSelectors.titleSelectors = titleSelectors,
        !.filters.requiredUrlPatterns = requiredUrlPatterns]

DiscoveryProfiles ==
    {DiscoveryProfile(t, r) :
        t \in {<<".product-title">>, <<".product-name", ".product-title">>},
        r \in {<<S_ProductsPath>>, <<>>}}

InitDiscover ==
    /\ options = [maxPages |-> 1, enableStealth |-> FALSE]
    /\ pc = "waitForProducts"
    /\ maxPages = 1
    /\ allProducts = <<>>
    /\ currentPage = 1
    /\ emptyPagesCount = 0
    /\ pageLinks = <<>>
    /\ i = 0
    /\ productData = NULL
    /\ retries = 0
    /\ returned = <<>>
    /\ event = "listingLoaded"
    /\ visited = <<1>>
    /\ emptyRun = 0
    /\ origin = <<>>
    /\ attempts = 1
    /\ pageUrl = S_BaseUrl
    /\ config \in DiscoveryProfiles
    /\ \E n \in 1..MaxListingLen :
          \E listing \in [1..n -> ListingAnchors] : document = listing

NextDiscover == Discover

SpecDiscover == InitDiscover /\ [][NextDiscover]_vars

\* ------------------------------------------------------------------------
\* Properties of the crawl controller
\* ------------------------------------------------------------------------

\* the steps in which a renderer call of the page loop failed for good
FailureEvents == {"browseFailed", "listingExhausted", "discoverFailed",
                  "productNavFailed", "readingFailed"}

\* C1: when the navigation to one candidate's product URL fails, only that
\* candidate is skipped: no record is appended, the empty-page counter is
\* unchanged and, when candidates remain, the crawl stays on the same listing
\* page with the same candidate list.
C1_OnlyFailedCandidateSkipped ==
    [][event' = "productNavFailed" =>
          /\ allProducts' = allProducts
          /\ emptyPagesCount' = emptyPagesCount
          /\ (i < Len(pageLinks) - 1 =>
                 pageLinks' = pageLinks /\ currentPage' = currentPage)]_vars

\* C2: the crawl starts with page 1, no empty page and no record; a listing
\* page is loaded only while page <= maxPages and fewer than two pages in a
\* row came back empty; with maxPages = 5 and pages 1 and 2 without
\* candidates the crawl has returned after page 2 with a count of 2, having
\* requested pages 1 and 2 only.
C2_StartAndStop ==
    /\ event = "start" =>
          currentPage = 1 /\ emptyPagesCount = 0 /\ allProducts = <<>>
    /\ pc \in {"browse", "listingGoto", "retryDelay", "waitForProducts"} =>
          currentPage <= maxPages /\ emptyPagesCount < maxEmptyPages
    /\ (maxPages = DefaultMaxPages /\ currentPage = 3 /\ emptyRun = 2) =>
          pc = "done" /\ emptyPagesCount = 2 /\ visited = <<1, 2>>

C2_Witness ==
    /\ maxPages = DefaultMaxPages
    /\ currentPage = 3
    /\ emptyRun = 2
    /\ pc = "done"
    /\ event = "discovered"

\* C3: when every one of the maxRetries attempts to load a listing page has
\* failed, the page counts as a page without candidates: the empty-page
\* counter grows by one, the records are unchanged, the page number advances
\* by one and the crawl goes on or returns as the loop condition says.
C3_ExhaustedListingCountsAsEmpty ==
    [][event' = "listingExhausted" =>
          /\ attempts' = config.navigation.maxRetries
          /\ emptyPagesCount' = emptyPagesCount + 1
          /\ allProducts' = allProducts
          /\ currentPage' = currentPage + 1
          /\ pc' = IF currentPage' <= maxPages /\ emptyPagesCount' < maxEmptyPages
                   THEN "browse" ELSE "done"]_vars

C3_Witness ==
    /\ event = "listingExhausted"
    /\ attempts = PredefinedRetries
    /\ config.navigation.maxRetries = PredefinedRetries
    /\ emptyPagesCount = 1
    /\ currentPage = 2
    /\ pc = "browse"

\* C4 as claimed: the failure of a navigation, to a listing page or to a
\* product page, reaches the page loop only after maxRetries attempts.
C4_EveryNavigationRetried ==
    event \in {"listingExhausted", "productNavFailed"} =>
        attempts = config.navigation.maxRetries

\* C4: a listing page is requested at most maxRetries times and its failure
\* reaches the page loop only after maxRetries failed attempts; a product
\* page is requested exactly once and the failure of that single request
\* reaches the page loop without a retry.
C4_ListingRetriedProductOnce ==
    /\ pc = "listingGoto" =>
          attempts = retries + 1 /\ attempts <= config.navigation.maxRetries
    /\ pc = "retryDelay" =>
          attempts = retries /\ attempts < config.navigation.maxRetries
    /\ event = "listingExhausted" => attempts = config.navigation.maxRetries
    /\ pc = "productGoto" => attempts = 1
    /\ event = "productNavFailed" => attempts = 1

C4_Witness ==
    /\ event = "productNavFailed"
    /\ config.navigation.maxRetries = PredefinedRetries
    /\ attempts = 1
    /\ Len(visited) >= 2
    /\ pc = "browse"

\* C5: the empty-page counter always equals the number of latest consecutive
\* listing pages that gave no candidate.
C5_CounterIsEmptyRun == emptyPagesCount = emptyRun

\* C6: the records are in discovery order: record k comes from the candidate
\* whose page and position are origin[k], and these are strictly increasing,
\* by page and then by position within the page.
C6_DiscoveryOrder ==
    /\ Len(origin) = Len(allProducts)
    /\ \A k \in 1..Len(allProducts) : allProducts[k].url.value = origin[k][3]
    /\ \A a, b \in 1..Len(origin) :
          a < b => \/ origin[a][1] < origin[b][1]
                   \/ origin[a][1] = origin[b][1] /\ origin[a][2] < origin[b][2]

C6_Witness ==
    /\ Len(allProducts) >= 3
    /\ origin[1][1] = origin[2][1]
    /\ origin[2][1] < origin[3][1]
    /\ allProducts[1].url.value # allProducts[2].url.value

\* C7: each step leaves the records unchanged or appends one record at the
\* end; a failed renderer call leaves them unchanged and the loop goes on;
\* when scrapeProducts has returned, it has returned the records accumulated.
C7_AppendOnlyAndReturned ==
    [][/\ \/ allProducts' = allProducts
          \/ /\ Len(allProducts') = Len(allProducts) + 1
             /\ SubSeq(allProducts', 1, Len(allProducts)) = allProducts
       /\ event' \in FailureEvents =>
             allProducts' = allProducts /\ pc' \in {"browse", "done"}
       /\ pc' = "done" => returned' = <<allProducts'>>]_vars

C7_Witness ==
    /\ pc = "done"
    /\ event \in FailureEvents
    /\ Len(allProducts) >= 2
    /\ returned = <<allProducts>>

\* C8: no multi-valued list of an accepted record holds the same string
\* twice.
C8_NoDuplicateValues ==
    \A k \in 1..Len(allProducts) :
        \A f \in 1..Len(MultiFields) :
            Has(allProducts[k], MultiFields[f]) =>
                NoDuplicates(allProducts[k][MultiFields[f]].value)

\* ------------------------------------------------------------------------
\* The multi-valued lists, described by position in the document
\* ------------------------------------------------------------------------

\* a occurs before b: by first coordinate, then by second
Before(a, b) == a[1] < b[1] \/ (a[1] = b[1] /\ a[2] < b[2])

\* the texts of a set of occurrences in order, each text once, at its first
\* occurrence
TextsInOrder(occurrences, text) ==
    LET first == {a \in occurrences :
                     \A b \in occurrences : Before(b, a) => text[b] # text[a]}
    IN  [n \in 1..Cardinality(first) |->
            text[CHOOSE a \in first :
                     Cardinality({b \in first : Before(b, a)}) = n - 1]]

\* the direct matches: <<selector, element>> pairs whose trimmed text is
\* longer than minLen, in selector order and then document order
DirectMatches(doc, selectors, minLen) ==
    LET all   == AllElements(doc)
        pairs == (1..Len(selectors)) \X (1..Len(all))
        text  == [o \in pairs |-> trim(textContent(all[o[2]]))]
    IN  TextsInOrder({o \in pairs :
                         /\ selectors[o[1]] \in all[o[2]].sels
                         /\ Len(text[o]) > minLen},
                     text)

\* the element at position d stands between a keyword heading and the next
\* heading
UnderKeywordHeading(doc, d, keywords) ==
    \E h \in 1..(d - 1) :
        /\ HeadingMatches(doc[h], keywords)
        /\ \A m \in (h + 1)..d : doc[m].tag \notin HeadingTags

\* the heading-associated matches: <<element, item>> pairs, the item of a
\* list longer than itemMin, a paragraph or list item itself (item 0)
\* longer than paraMin, in document order
HeadingAssociated(doc, keywords, itemMin, paraMin) ==
    LET pairs == {o \in (1..Len(doc)) \X (0..Len(AllElements(doc))) :
                     o[2] <= Len(doc[o[1]].items)}
        text  == [o \in pairs |->
                     IF o[2] = 0 THEN trim(textContent(doc[o[1]]))
                     ELSE trim(textContent(doc[o[1]].items[o[2]]))]
    IN  TextsInOrder({o \in pairs :
                         /\ \/ /\ o[2] = 0
                               /\ doc[o[1]].tag \in {"p", "li"}
                               /\ Len(text[o]) > paraMin
                            \/ /\ o[2] > 0
                               /\ doc[o[1]].tag \in ListTags
                               /\ doc[o[1]].items[o[2]].tag = "li"
                               /\ Len(text[o]) > itemMin
                         /\ UnderKeywordHeading(doc, o[1], keywords)},
                     text)

\* seq without the members of other
Without(seq, other) ==
    SelectSeq(seq, LAMBDA t : \A k \in 1..Len(other) : other[k] # t)

\* C9 as claimed: the features of an extracted record are all the non-empty
\* trimmed texts matched by the field's selectors, followed by the list-item
\* texts and the long-enough paragraph texts between a keyword heading and
\* the next heading; for the example document they are "Durable", "Fast",
\* "Light".
C9_AllNonEmptyTexts ==
    (event = "extracted" /\ productData # NULL) =>
        LET rule     == config.extractionRules.features
            expected == DirectMatches(document, rule.selectors, 0)
                        \o HeadingAssociated(document, rule.headingKeywords, 0, 10)
        IN  /\ Has(productData, "features") <=> expected # <<>>
            /\ Has(productData, "features") =>
                   productData.features.value = expected
            /\ document = ExampleDocument =>
                   /\ Has(productData, "features")
                   /\ productData.features.value = <<S_Durable, S_Fast, S_Light>>

\* C9: the features of an extracted record begin with the direct matches,
\* the trimmed texts longer than 5 characters matched by the field's
\* selectors, in selector order, each once; the rest are the
\* heading-associated matches, the list-item texts longer than 5 characters
\* and the paragraph texts longer than 10 characters between a keyword
\* heading and the next heading, in encounter order, each once, those equal
\* to a direct match possibly left out; the field is absent when there is
\* no match. For the example document the features are "Durable" alone.
C9_DirectThenHeading ==
    (event = "extracted" /\ productData # NULL) =>
        LET rule    == config.extractionRules.features
            direct  == DirectMatches(document, rule.selectors, 5)
            heading == HeadingAssociated(document, rule.headingKeywords, 5, 10)
        IN  /\ Has(productData, "features") <=> (direct \o heading) # <<>>
            /\ Has(productData, "features") =>
                   LET value == productData.features.value
                       rest  == SubSeq(value, Len(direct) + 1, Len(value))
                   IN  /\ Len(value) >= Len(direct)
                       /\ SubSeq(value, 1, Len(direct)) = direct
                       /\ rest = heading \/ rest = Without(heading, direct)
            /\ document = ExampleDocument =>
                   /\ Has(productData, "features")
                   /\ productData.features.value = <<S_Durable>>

C9_Witness ==
    /\ event = "extracted"
    /\ document = ExampleDocument
    /\ productData # NULL
    /\ Has(productData, "features")
    /\ productData.features.value = <<S_Durable>>

\* C10: the description of every accumulated record is at least
\* filters.minDescriptionLength long.
C10_DescriptionLongEnough ==
    \A k \in 1..Len(allProducts) :
        length(allProducts[k].description) >= config.filters.minDescriptionLength

C10_Witness ==
    /\ Len(allProducts) >= 2
    /\ Len(allProducts) < Len(visited) * 2
    /\ config.filters.minDescriptionLength = PredefinedMinLength

\* ------------------------------------------------------------------------
\* Properties of validation, discovery and single-valued extraction
\* ------------------------------------------------------------------------

\* s contains sub, letter case aside
ContainsIgnoringCase(s, sub) ==
    \E k \in 0..(Len(s) - Len(sub)) :
        \A j \in 1..Len(sub) : LowerOf(s[k + j]) = LowerOf(sub[j])

\* none of the three rejecting conditions holds for the record
Acceptable(record, filters) ==
    /\ Len(record.description.value) >= filters.minDescriptionLength
    /\ \A k \in 1..Len(filters.invalidTitleKeywords) :
          ~ContainsIgnoringCase(record.title.value, filters.invalidTitleKeywords[k])
    /\ \A k \in 1..Len(filters.invalidDescriptionKeywords) :
          ~ContainsIgnoringCase(record.description.value,
                                filters.invalidDescriptionKeywords[k])

\* C11: the record built for a candidate is kept, as it was built, exactly
\* when its description is at least minDescriptionLength long, its title
\* contains no blocked title keyword and its description no blocked
\* description keyword, letter case aside; the validator changes neither the
\* profile nor the page; a record titled "Widget 404 Not Found" is dropped
\* under the blocked title keyword "404".
C11_ValidatorDecides ==
    [][event' = "extracted" =>
          \E record \in {EvaluateProduct(document, pageLinks[i + 1].url,
                                          pageLinks[i + 1].title, config)} :
              /\ allProducts' = IF Acceptable(record, config.filters)
                                THEN Append(allProducts, record)
                                ELSE allProducts
              /\ record.title.value = S_Widget404 => allProducts' = allProducts
              /\ config' = config
              /\ document' = document]_vars

C11_Witness ==
    /\ event = "extracted"
    /\ document = <<Title404, DescriptionWidget>>
    /\ Len(NormalizeDescription(S_DescWidget)) >= config.filters.minDescriptionLength
    /\ productData = NULL
    /\ allProducts = <<>>

\* the URLs of the elements a link selector matches
MatchedHrefs(doc, selector) ==
    {AllElements(doc)[k].href :
        k \in {m \in 1..Len(AllElements(doc)) : selector \in AllElements(doc)[m].sels}}

\* a URL that no skip entry and, if any is required, some required entry
\* is part of
PassesFilters(href, filters) ==
    /\ \A k \in 1..Len(filters.skipUrls) : ~includes(href, filters.skipUrls[k])
    /\ \/ filters.requiredUrlPatterns = <<>>
       \/ \E k \in 1..Len(filters.requiredUrlPatterns) :
              includes(href, filters.requiredUrlPatterns[k])

\* the URLs a link selector yields as candidates
YieldedHrefs(doc, selector, filters) ==
    {h \in MatchedHrefs(doc, selector) : h # <<>> /\ PassesFilters(h, filters)}

Urls(links) == {links[k].url : k \in 1..Len(links)}

Least(numbers) == CHOOSE j \in numbers : \A m \in numbers : j <= m

\* C12 as claimed: the candidates come from the first link selector that
\* matches any element of the page, also when the URL filters reject every
\* element it matches; when no selector matches, there is no candidate.
C12_FirstMatchingSelectorOnly ==
    event = "discovered" =>
        LET selectors == config.productSelectors.linkSelectors
            matching  == {j \in 1..Len(selectors) :
                             MatchedHrefs(document, selectors[j]) # {}}
        IN  IF matching = {} THEN pageLinks = <<>>
            ELSE Urls(pageLinks) =
                     YieldedHrefs(document, selectors[Least(matching)], config.filters)

\* C12: the candidates come from the first link selector, in declared
\* order, that yields a candidate, an element whose URL passes the URL
\* filters; a selector whose matches are all rejected is passed over and the
\* next one is tried, and no later selector adds a candidate; when no
\* selector yields a candidate the result is empty and the page counts as a
\* page without candidates.
C12_FirstYieldingSelectorOnly ==
    event = "discovered" =>
        LET selectors == config.productSelectors.linkSelectors
            yielding  == {j \in 1..Len(selectors) :
                             YieldedHrefs(document, selectors[j], config.filters) # {}}
        IN  IF yielding = {}
            THEN pageLinks = <<>> /\ emptyPagesCount = 1 /\ pc = "done"
            ELSE Urls(pageLinks) =
                     YieldedHrefs(document, selectors[Least(yielding)], config.filters)

C12_Witness ==
    /\ event = "discovered"
    /\ document = <<LinkContact, CardLink>>
    /\ Urls(pageLinks) = {S_UrlCard}
    /\ pc = "productGoto"

\* the text a title selector finds inside a link element: the trimmed text
\* of its first match among the element's children, empty without a match
TextInside(el, titleSelector) ==
    LET inside == {k \in 1..Len(el.items) : titleSelector \in el.items[k].sels}
    IN  IF inside = {} THEN <<>> ELSE trim(textContent(el.items[Least(inside)]))

\* the title as claimed: the first title selector that finds text inside the
\* element, then the element's text, its title, its alt, the placeholder
ClaimedTitle(el, index, titleSelectors) ==
    LET finding == {t \in 1..Len(titleSelectors) :
                       TextInside(el, titleSelectors[t]) # <<>>}
        raw == IF finding # {} THEN TextInside(el, titleSelectors[Least(finding)])
               ELSE IF trim(textContent(el)) # <<>> THEN trim(textContent(el))
               ELSE IF el.title # <<>> THEN el.title
               ELSE IF el.alt # <<>> THEN el.alt
               ELSE Placeholder(index)
    IN  trim(CollapseSpaces(raw))

\* C13: the title of every candidate is the first non-empty text that a
\* title selector finds inside the candidate's link element; only when no
\* title selector finds text is it the element's own text, then its title
\* attribute, then its alt attribute, then "Product {n}".
C13_TitleSelectorsBeforeOwnText ==
    event = "discovered" =>
        \A j \in 1..Len(config.productSelectors.linkSelectors) :
            LET elements == querySelectorAll(document,
                                config.productSelectors.linkSelectors[j])
            IN  \A k \in 1..Len(pageLinks) :
                    LET from == {n \in 1..Len(elements) :
                                    elements[n].href = pageLinks[k].url}
                    IN  from # {} =>
                            pageLinks[k].title =
                                ClaimedTitle(elements[Least(from)], Least(from) - 1,
                                             config.productSelectors.titleSelectors)

\* where in the discovered list a URL comes first
FirstWith(links, url) == Least({n \in 1..Len(links) : links[n].url = url})

\* C14: no two candidates of a listing page have the same URL; every
\* discovered URL is kept once, with the title of its first discovery, and
\* the candidates are in the order of these first discoveries.
C14_FirstDiscoveryKept ==
    event = "discovered" =>
        LET discovered == LinksFrom(document, config.productSelectors.linkSelectors,
                                    config)
        IN  /\ \A a, b \in 1..Len(pageLinks) :
                   pageLinks[a].url = pageLinks[b].url => a = b
            /\ Urls(pageLinks) = Urls(discovered)
            /\ \A k \in 1..Len(pageLinks) :
                   pageLinks[k] = discovered[FirstWith(discovered, pageLinks[k].url)]
            /\ \A a, b \in 1..Len(pageLinks) :
                   a < b => FirstWith(discovered, pageLinks[a].url)
                                < FirstWith(discovered, pageLinks[b].url)

C14_Witness ==
    /\ event = "discovered"
    /\ document = <<LinkWidget, LinkGizmo, LinkBare>>
    /\ Len(pageLinks) = 2
    /\ pageLinks[2] = [url |-> S_UrlGizmo, title |-> S_Gizmo]

\* the URL contains no entry of skipUrls
Unskipped(href, filters) ==
    \A k \in 1..Len(filters.skipUrls) : ~includes(href, filters.skipUrls[k])

\* C15: the URL of every candidate contains no skipUrls entry and, when
\* requiredUrlPatterns is not empty, one of its entries; when it is empty,
\* every unskipped URL matched by the first link selector that matches an
\* unskipped URL is a candidate.
C15_UrlFiltersRespected ==
    event = "discovered" =>
        LET filters   == config.filters
            selectors == config.productSelectors.linkSelectors
            unskipped(j) == {h \in MatchedHrefs(document, selectors[j]) :
                                h # <<>> /\ Unskipped(h, filters)}
        IN  /\ \A k \in 1..Len(pageLinks) :
                   /\ Unskipped(pageLinks[k].url, filters)
                   /\ filters.requiredUrlPatterns # <<>> =>
                          \E r \in 1..Len(filters.requiredUrlPatterns) :
                              includes(pageLinks[k].url, filters.requiredUrlPatterns[r])
            /\ filters.requiredUrlPatterns = <<>> =>
                   \A j \in 1..Len(selectors) :
                       (\A e \in 1..(j - 1) : unskipped(e) = {}) =>
                           unskipped(j) \subseteq Urls(pageLinks)

C15_Witness ==
    /\ event = "discovered"
    /\ config.filters.requiredUrlPatterns = <<>>
    /\ document = <<LinkContact, LinkImage, LinkWidget>>
    /\ Urls(pageLinks) = {S_ImgWidget, S_UrlWidget}

\* the trimmed text of the first element of the page that a selector
\* matches, empty without a match
FirstMatchText(doc, selector) ==
    LET matching == {k \in 1..Len(AllElements(doc)) :
                        selector \in AllElements(doc)[k].sels}
    IN  IF matching = {} THEN <<>>
        ELSE trim(textContent(AllElements(doc)[Least(matching)]))

\* the text of the first selector of a rule that produces text, else the
\* fallback
FirstProducing(doc, rule, fallback) ==
    LET finding == {j \in 1..Len(rule) : FirstMatchText(doc, rule[j]) # <<>>}
    IN  IF finding = {} THEN fallback
        ELSE FirstMatchText(doc, rule[Least(finding)])

\* C16: the title of an extracted record is the trimmed text of the first
\* selector of extractionRules.title that produces text, and the title of the
\* candidate when none does; under the rule [".missing", ".title"], with no
\* match of .missing and "Widget" at .title, it is "Widget".
C16_FirstTitleSelectorWins ==
    (event = "extracted" /\ productData # NULL) =>
        LET rule == config.extractionRules.title
        IN  /\ productData.title.value =
                   FirstProducing(document, rule, pageLinks[i + 1].title)
            /\ ( /\ rule = <<".missing", ".title">>
                 /\ \A k \in 1..Len(document) : ".missing" \notin document[k].sels
                 /\ FirstMatchText(document, ".title") = S_Widget )
               => productData.title.value = S_Widget

C16_Witness ==
    /\ event = "extracted"
    /\ productData # NULL
    /\ document = <<TitleWidget, ContentGizmo>>
    /\ pageLinks[i + 1].title = S_Gizmo
    /\ productData.title.value = S_Widget

\* C17 as claimed: the description of an extracted record comes from the
\* first non-empty trimmed text, however short, that the selectors of
\* extractionRules.description match, in selector order.
C17_AnyNonEmptyTextWins ==
    (event = "extracted" /\ productData # NULL) =>
        LET texts == DirectMatches(document, config.extractionRules.description, 0)
        IN  /\ texts # <<>>
            /\ productData.description.value = NormalizeDescription(texts[1])

\* C17: the description of a record comes from the first trimmed text
\* longer than 20 characters that the selectors of
\* extractionRules.description match, in selector order and then document
\* order; a text of 20 characters or fewer never wins, whichever selector
\* matches it, and without a longer text the description is empty; the
\* record is dropped only when the validator rejects this description or
\* the title.
C17_FirstLongTextWins ==
    event = "extracted" =>
        LET long     == DirectMatches(document, config.extractionRules.description, 20)
            expected == IF long = <<>> THEN <<>> ELSE NormalizeDescription(long[1])
            title    == FirstProducing(document, config.extractionRules.title,
                                       pageLinks[i + 1].title)
        IN  IF productData # NULL
            THEN productData.description.value = expected
            ELSE ~Acceptable([title |-> Str(title), description |-> Str(expected)],
                             config.filters)

C17_Witness ==
    /\ event = "extracted"
    /\ document = <<DescriptionShort, ContentGizmo>>
    /\ productData # NULL
    /\ productData.description.value = S_DescGizmo

\* the characters of a text that are neither punctuation of a sentence end
\* nor spaces
Content(s) == SelectSeq(s, LAMBDA c : ~IsTerminator(c) /\ c # " ")

\* the part of a text before its third run of sentence-end punctuation
FirstThreeSentences(s) ==
    LET runs == {k \in 1..Len(s) :
                    IsTerminator(s[k]) /\ (k = 1 \/ ~IsTerminator(s[k - 1]))}
    IN  IF Cardinality(runs) < 3 THEN s
        ELSE SubSeq(s, 1, Nth(runs, 3) - 1)

\* C18: the description of an extracted record is the winning text itself
\* when that has no sentence-end punctuation; otherwise it is made of the
\* first three sentences of the winning text at most, in order, each "."
\* inside it followed by a space, it ends with "." and holds no other
\* sentence-end punctuation and no more than three ".".
C18_AtMostThreeSentences ==
    (event = "extracted" /\ productData # NULL) =>
        LET long == DirectMatches(document, config.extractionRules.description, 20)
            raw  == long[1]
            text == productData.description.value
            dots == {k \in 1..Len(text) : IsTerminator(text[k])}
        IN  /\ long # <<>>
            /\ IF \A k \in 1..Len(raw) : ~IsTerminator(raw[k])
               THEN text = raw
               ELSE /\ text[Len(text)] = "."
                    /\ Cardinality(dots) <= 3
                    /\ \A k \in dots :
                           text[k] = "." /\ (k < Len(text) => text[k + 1] = " ")
                    /\ Content(text) = Content(FirstThreeSentences(raw))

C18_Witness ==
    /\ event = "extracted"
    /\ productData # NULL
    /\ document = <<DescriptionWidget>>
    /\ Len(productData.description.value) = 55
    /\ Len(S_DescWidget) = 73

\* the steps in which a renderer call made for one candidate failed
CandidateFaults == {"productNavFailed", "readingFailed", "evaluateFailed"}

\* C19: a fault raised for one candidate, from the navigation to its page to
\* the evaluation of its record, yields no record and does not reach the
\* page loop: the empty-page counter is unchanged and the crawl goes on with
\* the next candidate of the page or, after the last one, with the next
\* page, as after a rejected record.
C19_FaultStaysWithCandidate ==
    [][event' \in CandidateFaults =>
          /\ allProducts' = allProducts
          /\ emptyPagesCount' = emptyPagesCount
          /\ IF i < Len(pageLinks) - 1
             THEN pc' = "productDelay" /\ currentPage' = currentPage
             ELSE pc' \in {"pagePause", "done"} /\ currentPage' = currentPage + 1]_vars

\* ------------------------------------------------------------------------
\* The session from its construction: new UniversalScraper(options)
\* ------------------------------------------------------------------------

\* The keys of PREDEFINED_CONFIGS; the model gives each the generic profile.
PREDEFINED_CONFIGS ==
    [name \in {"calian-gnss", "generic-ecommerce", "shopify-store"} |->
        Profile(PredefinedRetries, PredefinedMinLength)]

\* A profile object without its extractionRules section
WithoutExtractionRules(profile) ==
    [f \in DOMAIN profile \ {"extractionRules"} |-> profile[f]]

ConfigNames == {"", "generic-ecommerce", "shopify-store", "no-such-site"}

CustomConfigs ==
    {Profile(PredefinedRetries, PredefinedMinLength),
     WithoutExtractionRules(Profile(PredefinedRetries, PredefinedMinLength))}

\* ScraperOptions with a site name, with a custom profile, or with neither,
\* each with an explicit maxPages
SessionOptions ==
    LET crawl == {o \in Options : o.maxPages # 0}
    IN  crawl
        \cup {[maxPages |-> o.maxPages, enableStealth |-> o.enableStealth,
                configName |-> n] : o \in crawl, n \in ConfigNames}
        \cup {[maxPages |-> o.maxPages, enableStealth |-> o.enableStealth,
                customConfig |-> c] : o \in crawl, c \in CustomConfigs}

\* lines 27-38: the constructor takes customConfig as it is, else loads the
\* named profile, else throws; ConfigLoader.load throws for an unknown name.
\* initialize() then launches the browser without navigating.
Construct ==
    /\ pc = "new"
    /\ IF "customConfig" \in DOMAIN options
       THEN /\ config' = options.customConfig
            /\ pc' = "start"
            /\ event' = "created"
       ELSE IF "configName" \in DOMAIN options /\ options.configName # ""
       THEN IF options.configName \in DOMAIN PREDEFINED_CONFIGS
            THEN /\ config' = PREDEFINED_CONFIGS[options.configName]
                 /\ pc' = "start"
                 /\ event' = "created"
            ELSE /\ config' = config
                 /\ pc' = "aborted"
                 /\ event' = "configNotFound"
       ELSE /\ config' = config
            /\ pc' = "aborted"
            /\ event' = "configMissing"
    /\ UNCHANGED <<options, document, maxPages, allProducts, currentPage,
                   emptyPagesCount, pageLinks, i, productData, retries,
                   returned, visited, emptyRun, origin, attempts, pageUrl>>

InitSession ==
    /\ options \in SessionOptions
    /\ config = NULL
    /\ document = BlankPage
    /\ pc = "new"
    /\ maxPages = 0
    /\ allProducts = <<>>
    /\ currentPage = 0
    /\ emptyPagesCount = 0
    /\ pageLinks = <<>>
    /\ i = 0
    /\ productData = NULL
    /\ retries = 0
    /\ returned = <<>>
    /\ event = "new"
    /\ visited = <<>>
    /\ emptyRun = 0
    /\ origin = <<>>
    /\ attempts = 0
    /\ pageUrl = <<>>

NextSession == Construct \/ Next

SpecSession == InitSession /\ [][NextSession]_vars

\* the options name no profile, name an unknown one, or carry a profile
\* that lacks a rule section
ConfigFault(opts) ==
    IF "customConfig" \in DOMAIN opts
    THEN \E section \in {"productSelectors", "extractionRules", "navigation",
                          "filters"} : section \notin DOMAIN opts.customConfig
    ELSE \/ "configName" \notin DOMAIN opts
         \/ opts.configName \notin {"calian-gnss", "generic-ecommerce",
                                     "shopify-store"}

\* C20: in a session whose options have a configuration fault no listing
\* page is ever requested, no page.goto call is made, the renderer's page
\* stays blank and scrapeProducts never returns a result.
C20_ConfigFaultBeforeNavigation ==
    ConfigFault(options) =>
        /\ returned = <<>>
        /\ visited = <<>>
        /\ attempts = 0
        /\ document = BlankPage

\* ------------------------------------------------------------------------
\* Properties of pacing, ordering, identifiers and the profile
\* ------------------------------------------------------------------------

\* C21: the pacing mode does not change what is visited or accepted.  A
\* plain crawl requests the listing URL of every page iteration it starts
\* and evaluates every candidate whose page has loaded; with the same
\* navigation outcomes and page contents a humanized crawl does the same.
C21_PacingLeavesCrawlUnchanged ==
    [][/\ (pc = "browse" /\ 0 < config.navigation.maxRetries
              => visited' = Append(visited, currentPage))
       /\ (pc = "reading" => event' \in {"extracted", "evaluateFailed"})]_vars

\* C22: the candidates of a listing page are taken one at a time in
\* discovery order, and the page number advances only after the page's
\* last candidate has been reached, so that no candidate of the page is
\* left unprocessed when the next listing page is loaded.
C22_PageDrainedBeforeNext ==
    [][/\ (i' # i => i' = i + 1 \/ i' = 0)
       /\ (currentPage' # currentPage /\ Len(pageLinks) > 0
              => i = Len(pageLinks) - 1)]_vars

\* ------------------------------------------------------------------------
\* Extraction of one product page reached by a generated URL
\* ------------------------------------------------------------------------

MaxTailLen == 3

\* the characters of the part of a candidate's href after baseUrl
UrlChars == {"/", "w", "7", "-", "_", "~"}

\* the product page of a candidate has loaded and is about to be read
InitProductId ==
    /\ config = Profile(PredefinedRetries, PredefinedMinLength)
    /\ options = [maxPages |-> 1, enableStealth |-> FALSE]
    /\ document = DocWidget
    /\ pc = "reading"
    /\ maxPages = 1
    /\ allProducts = <<>>
    /\ currentPage = 1
    /\ emptyPagesCount = 0
    /\ i = 0
    /\ productData = NULL
    /\ retries = 0
    /\ returned = <<>>
    /\ event = "productLoaded"
    /\ visited = <<1>>
    /\ emptyRun = 0
    /\ origin = <<>>
    /\ attempts = 1
    /\ pageUrl = S_BaseUrl
    /\ \E n \in 0..MaxTailLen : \E tail \in [1..n -> UrlChars] :
           pageLinks = <<[url |-> S_BaseUrl \o tail, title |-> S_Widget]>>

NextProductId == Extract

SpecProductId == InitProductId /\ [][NextProductId]_vars

\* the last maximal run of characters other than "/" in a URL
FinalSegment(url) ==
    LET e == CHOOSE k \in 1..Len(url) :
                 url[k] # "/" /\ \A j \in (k + 1)..Len(url) : url[j] = "/"
        b == CHOOSE k \in 1..e :
                 /\ \A j \in k..e : url[j] # "/"
                 /\ (k = 1 \/ url[k - 1] = "/")
    IN  SubSeq(url, b, e)

\* C23: the productId of an extracted record is the final non-empty path
\* segment of the record's URL without the characters outside
\* [A-Za-z0-9_-], whether or not the URL ends in slashes.
C23_ProductIdFromFinalSegment ==
    event = "extracted" /\ allProducts # <<>> =>
        LET record == allProducts[Len(allProducts)]
            kept   == {LowerChars[k] : k \in 1..26} \cup {UpperChars[k] : k \in 1..26}
                          \cup Digits \cup {"-", "_"}
        IN  /\ Has(record, "productId")
            /\ record.productId =
                   Str(SelectSeq(FinalSegment(record.url.value),
                                 LAMBDA c : c \in kept))

\* ------------------------------------------------------------------------
\* Extraction under profiles that declare additionalFields: the crawl is
\* suspended after the page.goto of the first of two candidates.
\* ------------------------------------------------------------------------

\* largest number of body elements of a generated product page
MaxCustomLen == 2

\* "2 year warranty" (15 characters)
S_Warranty ==
    <<"2"," ","y","e","a","r"," ","w","a","r","r","a","n","t","y">>

\* "1 yr" (4 characters)
S_1yr ==
    <<"1"," ","y","r">>

ListWarranty == ListEl("ul", {}, <<Li({".warranty li"}, S_Warranty)>>)

\* a match of ".warranty li" whose text is too short to be kept
ListWarrantyShort == ListEl("ul", {}, <<Li({".warranty li"}, S_1yr)>>)

CustomElements == {HeadingFeatures, ListFastLight, ListDirectDurable,
                   ParaSteel, ListWarranty, ListWarrantyShort}

\* Object.entries(extractionRules.additionalFields), in insertion order
AdditionalFieldSets ==
    {<<>>,
     <<[name |-> "warranty", selectors |-> <<".warranty li">>]>>,
     <<[name |-> "warranty", selectors |-> <<".warranty li">>],
       [name |-> "materials", selectors |-> <<".materials li">>]>>,
     <<[name |-> "title", selectors |-> <<".warranty li">>]>>,
     <<[name |-> "description", selectors |-> <<".features li">>],
       [name |-> "warranty", selectors |-> <<".warranty li">>]>>}

CustomProfile(additionalFields) ==
    [Profile(PredefinedRetries, PredefinedMinLength)
        EXCEPT !.extractionRules.additionalFields = additionalFields]

InitCustom ==
    /\ options = [maxPages |-> 1, enableStealth |-> FALSE]
    /\ pc = "reading"
    /\ maxPages = 1
    /\ allProducts = <<>>
    /\ currentPage = 1
    /\ emptyPagesCount = 0
    /\ pageLinks = CandidatesWidgetGadget
    /\ i = 0
    /\ productData = NULL
    /\ retries = 0
    /\ returned = <<>>
    /\ event = "productLoaded"
    /\ visited = <<1>>
    /\ emptyRun = 0
    /\ origin = <<>>
    /\ attempts = 1
    /\ pageUrl = S_BaseUrl
    /\ \E fields \in AdditionalFieldSets : config = CustomProfile(fields)
    /\ \E n \in 0..MaxCustomLen :
          \E body \in [1..n -> CustomElements] : document = ProductHead \o body

NextCustom == Extract

SpecCustom == InitCustom /\ [][NextCustom]_vars

CoreFields == {"title", "description", "image", "url"}

\* C24: an extracted record carries no empty list.  Each of the six named
\* multi-valued fields is present exactly when its direct matches or its
\* heading-associated matches are not empty, and each field declared in
\* additionalFields under a name of its own is present exactly when its
\* selectors have a direct match.
C24_NoEmptyList ==
    (event = "extracted" /\ productData # NULL) =>
        /\ \A f \in DOMAIN productData :
               productData[f].type = "array" => productData[f].value # <<>>
        /\ \A k \in 1..Len(MultiFields) :
               LET rule == config.extractionRules[MultiFields[k]]
               IN  Has(productData, MultiFields[k]) <=>
                       \/ DirectMatches(document, rule.selectors, 5) # <<>>
                       \/ HeadingAssociated(document, rule.headingKeywords,
                                            5, 10) # <<>>
        /\ \A k \in 1..Len(config.extractionRules.additionalFields) :
               LET entry == config.extractionRules.additionalFields[k]
               IN  entry.name \notin CoreFields =>
                       (Has(productData, entry.name) <=>
                           DirectMatches(document, entry.selectors, 5) # <<>>)

\* two custom fields are declared; the page matches the first and not the
\* second, and no benefits
C24_Witness ==
    /\ event = "extracted"
    /\ productData # NULL
    /\ Len(config.extractionRules.additionalFields) = 2
    /\ document = ProductHead \o <<ListWarranty, ParaSteel>>
    /\ productData.warranty = Arr(<<S_Warranty>>)
    /\ ~Has(productData, "materials")
    /\ ~Has(productData, "benefits")

\* C30: custom-field extraction leaves the core fields alone.  Whatever
\* names additionalFields declares, the candidate is accepted exactly when
\* the record built without the custom fields is valid, and the title,
\* description, image and url of the accepted record are those of that
\* record.
C30_CoreFieldsUnchanged ==
    event = "extracted" =>
        LET link == pageLinks[i + 1]
            bare == [config EXCEPT !.extractionRules.additionalFields = <<>>]
            core == EvaluateProduct(document, link.url, link.title, bare)
        IN  /\ productData # NULL <=> isValidProduct(core, config) = "true"
            /\ productData # NULL =>
                   \A f \in CoreFields : productData[f] = core[f]

\* ------------------------------------------------------------------------
\* Listing URLs under generated pagination templates: the page loop is
\* about to start the iteration of a page, the pages before it having
\* yielded candidates and no accepted record.
\* ------------------------------------------------------------------------

MaxPageNumber == 12

\* "#!page=${pageNumber}" (20 characters)
S_HashPagination ==
    <<"#","!","p","a","g","e","=","$","{","p","a","g","e","N","u","m","b",
      "e","r","}">>

\* "/page/${pageNumber}/" (20 characters)
S_PathPagination ==
    <<"/","p","a","g","e","/","$","{","p","a","g","e","N","u","m","b","e",
      "r","}","/">>

\* "?p=${pageNumber}&n=${pageNumber}" (32 characters)
S_TwoTokens ==
    <<"?","p","=","$","{","p","a","g","e","N","u","m","b","e","r","}","&",
      "n","=","$","{","p","a","g","e","N","u","m","b","e","r","}">>

\* "?start" (6 characters)
S_NoToken ==
    <<"?","s","t","a","r","t">>

PaginationPatterns ==
    {S_Pagination, S_HashPagination, S_PathPagination, S_TwoTokens, S_NoToken}

InitPageUrl ==
    /\ options = [maxPages |-> MaxPageNumber, enableStealth |-> FALSE]
    /\ document = BlankPage
    /\ pc = "browse"
    /\ maxPages = MaxPageNumber
    /\ allProducts = <<>>
    /\ emptyPagesCount = 0
    /\ pageLinks = <<>>
    /\ i = 0
    /\ productData = NULL
    /\ retries = 0
    /\ returned = <<>>
    /\ emptyRun = 0
    /\ origin = <<>>
    /\ attempts = 0
    /\ \E pattern \in PaginationPatterns :
          config = [Profile(PredefinedRetries, PredefinedMinLength)
                       EXCEPT !.paginationPattern = pattern]
    /\ currentPage \in 1..MaxPageNumber
    /\ visited = [k \in 1..(currentPage - 1) |-> k]
    /\ event = IF currentPage = 1 THEN "start" ELSE "pagePause"
    /\ pageUrl = IF currentPage = 1 THEN <<>>
                 ELSE buildPageUrl(currentPage - 1, config)

NextPageUrl == Browse

SpecPageUrl == InitPageUrl /\ [][NextPageUrl]_vars

\* the decimal numeral of a number below 100
Decimal(n) ==
    LET digit == [d \in 0..9 |-> <<"0","1","2","3","4","5","6","7","8","9">>[d + 1]]
    IN  IF n < 10 THEN <<digit[n]>> ELSE <<digit[n \div 10], digit[n % 10]>>

\* C25: the listing URL of page 1 is baseUrl; that of a page n > 1 is
\* baseUrl followed by the pagination template with its page-number
\* placeholder replaced by n, it contains n, and it differs from the
\* listing URL of every other page above 1.
C25_ListingUrlFromTemplate ==
    event = "browsed" =>
        LET n        == currentPage
            template == config.paginationPattern
            holes    == {k \in 1..Len(template) :
                            /\ k + Len(S_PageNumberToken) - 1 <= Len(template)
                            /\ \A j \in 1..Len(S_PageNumberToken) :
                                   template[k + j - 1] = S_PageNumberToken[j]}
        IN  /\ n = 1 => pageUrl = config.baseUrl
            /\ n > 1 =>
                   /\ \A k \in holes :
                          (\A h \in holes : k <= h) =>
                              pageUrl = config.baseUrl
                                        \o SubSeq(template, 1, k - 1)
                                        \o Decimal(n)
                                        \o SubSeq(template,
                                                  k + Len(S_PageNumberToken),
                                                  Len(template))
                   /\ includes(SubSeq(pageUrl, Len(config.baseUrl) + 1,
                                      Len(pageUrl)), Decimal(n))
                   /\ \A m \in 2..MaxPageNumber :
                          m # n => buildPageUrl(m, config) # pageUrl

\* page 12 under the template "?p=${pageNumber}&n=${pageNumber}"
C25_Witness ==
    /\ event = "browsed"
    /\ currentPage = 12
    /\ config.paginationPattern = S_TwoTokens
    /\ pageUrl = S_BaseUrl \o <<"?","p","=","1","2","&","n","=">>
                           \o S_PageNumberToken

\* C26: once the constructor has loaded the site profile no step of the
\* session changes it, and a profile loaded by name stays equal to the
\* entry of PREDEFINED_CONFIGS under that name.
C26_ProfileNeverMutated ==
    [][/\ (pc # "new" => config' = config)
       /\ (pc' \notin {"new", "aborted"} /\ "configName" \in DOMAIN options
              => config' = PREDEFINED_CONFIGS[options.configName])]_vars

\* a crawl over a profile loaded by name has requested two listing pages,
\* accepted a record and returned
C26_Witness ==
    /\ pc = "done"
    /\ "configName" \in DOMAIN options
    /\ config = PREDEFINED_CONFIGS["shopify-store"]
    /\ Len(allProducts) > 0
    /\ visited = <<1, 2>>

\* The delay between candidates: it follows the evaluation of a candidate,
\* whatever became of its record, exactly when the candidate is not the
\* last of its page, and the next candidate is begun only from it.
PacedBetweenCandidates ==
    /\ (event' \in {"extracted", "evaluateFailed"}
           => (pc' = "productDelay" <=> i < Len(pageLinks) - 1))
    /\ (pc' = "productDelay" /\ pc # "productDelay"
           => event' \in {"extracted", "evaluateFailed"})
    /\ (i' = i + 1 => pc = "productDelay")

\* C27 as claimed: the delay between candidates as above, and at the end
\* of a page the pause comes first and the page number is advanced after it.
C27_PauseBeforeAdvance ==
    [][/\ PacedBetweenCandidates
       /\ (pc' = "pagePause" => currentPage' = currentPage)
       /\ (pc = "pagePause" => currentPage' = currentPage + 1)]_vars

\* C27: the delay between candidates as above; at the end of a page, with
\* or without candidates, the page number is advanced first, and the pause
\* follows exactly when the loop goes on to another page; the page number
\* does not change during the pause.
C27_AdvanceThenPause ==
    [][/\ PacedBetweenCandidates
       /\ (event' \in {"extracted", "evaluateFailed", "discovered"}
              /\ currentPage' # currentPage
              => /\ currentPage' = currentPage + 1
                 /\ pc' = IF currentPage' <= maxPages
                             /\ emptyPagesCount' < maxEmptyPages
                          THEN "pagePause" ELSE "done")
       /\ (pc' = "pagePause"
              => event' \in {"extracted", "evaluateFailed", "discovered"})
       /\ (pc = "pagePause"
              => currentPage' = currentPage /\ pc' = "browse")]_vars

\* page 1 had two candidates, the first evaluated without a record and the
\* second accepted; the crawl pauses before page 2
C27_Witness ==
    /\ pc = "pagePause"
    /\ currentPage = 2
    /\ Len(allProducts) = 1
    /\ Len(origin) = 1
    /\ origin[1][1] = 1
    /\ origin[1][2] = 1

\* C28: navigateToPage returns, so that the listing page is waited for and
\* its links extracted, only when its latest attempt loaded the page of the
\* current iteration; it throws after exactly maxRetries failed attempts,
\* and it delays after a failed attempt only when another attempt follows.
C28_ReturnsOnlyAfterLoad ==
    /\ pc = "waitForProducts" =>
          /\ event = "listingLoaded"
          /\ attempts >= 1
          /\ visited # <<>> /\ visited[Len(visited)] = currentPage
    /\ event = "listingExhausted" => attempts = config.navigation.maxRetries
    /\ pc = "retryDelay" => attempts = retries /\ retries < config.navigation.maxRetries

\* ------------------------------------------------------------------------
\* The crawl when every renderer call and every delay returns or fails:
\* a step that is possible is eventually taken.
\* ------------------------------------------------------------------------

MaxFairRetries == 2

MaxFairPages == 2

\* the state after construction, for the predefined minimum length and an
\* explicit maxPages
InitFair ==
    /\ Init
    /\ config.filters.minDescriptionLength = PredefinedMinLength
    /\ config.navigation.maxRetries <= MaxFairRetries
    /\ options.maxPages \in 1..MaxFairPages

SpecFair == InitFair /\ [][Next]_vars /\ WF_vars(Next)

\* C29: scrapeProducts returns; until then every step that changes the
\* page number adds one to it, the listing pages are requested in strictly
\* increasing order of page number, each at most once, and at most maxPages
\* of them are requested.
C29_TerminatesPageByPage ==
    /\ <>(pc = "done")
    /\ [][currentPage' # currentPage => currentPage' = currentPage + 1]_vars
    /\ [](/\ \A a, b \in 1..Len(visited) : a < b => visited[a] < visited[b]
          /\ \A a \in 1..Len(visited) : visited[a] \in 1..maxPages
          /\ Len(visited) <= maxPages)

\* the crawl has returned after requesting two listing pages, the first of
\* which was left through the catch of the page loop
C29_Witness ==
    /\ pc = "done"
    /\ returned # <<>>
    /\ visited = <<1, 2>>
    /\ currentPage = 3
    /\ emptyPagesCount = 1

====
